---- MODULE Spec2Model ----
(***************************************************************************)
(* A model of dnsintel: the DNS-over-HTTPS resolver client (lookupDNS),    *)
(* the attack-surface heuristic (analyzeAttackSurface), the                *)
(* infrastructure graph build (InfrastructureGraph.handleAnalyze), the     *)
(* DNS lookup tool with its history (DNSLookupTool), the subdomain tool    *)
(* (SubdomainTestTool) and the IP tool (IPIntelligenceTool).  The page     *)
(* mounts one tool at a time; a behaviour of the model stays with the tool *)
(* it used first.                                                          *)
(*                                                                         *)
(* Strings.  A JavaScript string is modelled as the sequence of its        *)
(* pieces ("atoms"); concatenation is \o.  A domain typed by the user is   *)
(* a sequence of single characters, so that trim, toLowerCase and the      *)
(* validation regex work on characters.  Record data and messages are cut  *)
(* into atoms at every boundary the code looks at (a prefix, a space, a    *)
(* digit), so startsWith, includes, split and parseInt are computed on the *)
(* atoms as the code computes them on the characters.                      *)
(*                                                                         *)
(* Scheduling.  The program runs on one JavaScript event loop.  An action  *)
(* of the model is one task of that loop: a user event, or the settling of *)
(* one awaited promise together with every continuation that runs before   *)
(* the next task (the rest of lookupDNS up to its next await, the join of  *)
(* Promise.all, the caller's catch and finally blocks).                    *)
(***************************************************************************)
EXTENDS Integers, Sequences, FiniteSets, TLC

VARIABLES
    calls,   \* the activations of lookupDNS of the running operation
    op,      \* the running operation: a direct call of lookupDNS,
             \* analyzeAttackSurface or the graph build, and its result
    ui,      \* the React state of the tool that runs it
    history, \* DNSLookupTool: the history state
    storage, \* localStorage: the item 'dns-history'
    lookups, \* the activations of DNSLookupTool.handleLookup
    now      \* the clock that Date.now() and new Date() read

vars == <<calls, op, ui, history, storage, lookups, now>>

\* What only the DNS lookup tool touches
dnsVars == <<history, storage, lookups, now>>

----------------------------------------------------------------------------
(* Generic helpers *)

Range(s) == {s[i] : i \in 1..Len(s)}

Min(a, b) == IF a < b THEN a ELSE b

\* String.prototype.startsWith
StartsWith(s, p) == Len(p) <= Len(s) /\ SubSeq(s, 1, Len(p)) = p

\* String.prototype.includes
Includes(s, p) == \E i \in 0..(Len(s) - Len(p)) : SubSeq(s, i + 1, i + Len(p)) = p

\* Array.prototype.join(sep) on an array of strings
RECURSIVE Join(_, _)
Join(strs, sep) ==
    IF Len(strs) = 0 THEN <<>>
    ELSE IF Len(strs) = 1 THEN strs[1]
    ELSE strs[1] \o sep \o Join(Tail(strs), sep)

----------------------------------------------------------------------------
(* src/lib/utils.ts and the input normalisation of the tools *)

LowerCase == <<"a","b","c","d","e","f","g","h","i","j","k","l","m",
               "n","o","p","q","r","s","t","u","v","w","x","y","z">>

UpperCase == <<"A","B","C","D","E","F","G","H","I","J","K","L","M",
               "N","O","P","Q","R","S","T","U","V","W","X","Y","Z">>

Digits == <<"0","1","2","3","4","5","6","7","8","9">>

WhiteSpace == {" ", "\t", "\n"}

IsAlpha(ch) == ch \in Range(LowerCase) \cup Range(UpperCase)

\* the regex class [a-zA-Z0-9-]
IsLabelChar(ch) == IsAlpha(ch) \/ ch \in Range(Digits) \/ ch = "-"

\* String.prototype.trim
RECURSIVE TrimLeft(_)
TrimLeft(s) ==
    IF Len(s) > 0 /\ s[1] \in WhiteSpace THEN TrimLeft(Tail(s)) ELSE s

RECURSIVE TrimRight(_)
TrimRight(s) ==
    IF Len(s) > 0 /\ s[Len(s)] \in WhiteSpace
    THEN TrimRight(SubSeq(s, 1, Len(s) - 1)) ELSE s

Trim(s) == TrimRight(TrimLeft(s))

LowerChar(ch) ==
    IF \E i \in 1..26 : UpperCase[i] = ch
    THEN LowerCase[CHOOSE i \in 1..26 : UpperCase[i] = ch]
    ELSE ch

\* String.prototype.toLowerCase
ToLowerCase(s) == [i \in 1..Len(s) |-> LowerChar(s[i])]

\* The positions of the dots of s, and the labels they delimit.
DotPositions(s) == {i \in 1..Len(s) : s[i] = "."}

\* /^(?!:\/\/)([a-zA-Z0-9-]+\.)*[a-zA-Z0-9-]+\.[a-zA-Z]{2,}$/ : the string ends
\* in a dot followed by two or more letters, and what precedes that dot is a
\* dot-separated list of one or more non-empty labels of [a-zA-Z0-9-].
isValidDomain(s) ==
    \E d \in DotPositions(s) :
        /\ Len(s) - d >= 2
        /\ \A i \in (d + 1)..Len(s) : IsAlpha(s[i])
        /\ d >= 2
        /\ \A i \in 1..(d - 1) : IsLabelChar(s[i]) \/ s[i] = "."
        /\ s[1] # "."
        /\ \A i \in 1..(d - 1) : s[i] = "." => s[i + 1] # "."

----------------------------------------------------------------------------
(* lib/dns: lookupDNS *)

DNS_OVER_HTTPS_SERVERS ==
    << <<"https://dns.google/resolve">>,
       <<"https://cloudflare-dns.com/dns-query">> >>

RecordTypes == {"A", "AAAA", "MX", "TXT", "CNAME", "NS", "SOA", "PTR", "SRV"}

\* const typeCode: Record<RecordType, number>
typeCode(recordType) ==
    CASE recordType = "A" -> 1
      [] recordType = "AAAA" -> 28
      [] recordType = "MX" -> 15
      [] recordType = "TXT" -> 16
      [] recordType = "CNAME" -> 5
      [] recordType = "NS" -> 2
      [] recordType = "SOA" -> 6
      [] recordType = "PTR" -> 12
      [] recordType = "SRV" -> 33

\* A chain that names code 5 "NS" and code 2 "CNAME"
typeNameSwapped(code) ==
    IF code = 1 THEN "A" ELSE IF code = 28 THEN "AAAA"
    ELSE IF code = 15 THEN "MX" ELSE IF code = 16 THEN "TXT"
    ELSE IF code = 5 THEN "NS" ELSE IF code = 2 THEN "CNAME"
    ELSE IF code = 6 THEN "SOA" ELSE IF code = 12 THEN "PTR"
    ELSE IF code = 33 THEN "SRV" ELSE "UNKNOWN"

\* the conditional chain that names an answer's numeric type
typeName(code) ==
    IF code = 1 THEN "A" ELSE IF code = 28 THEN "AAAA"
    ELSE IF code = 15 THEN "MX" ELSE IF code = 16 THEN "TXT"
    ELSE IF code = 5 THEN "CNAME" ELSE IF code = 2 THEN "NS"
    ELSE IF code = 6 THEN "SOA" ELSE IF code = 12 THEN "PTR"
    ELSE IF code = 33 THEN "SRV" ELSE "UNKNOWN"

\* new URLSearchParams({name: domain, type: typeCode[recordType].toString()})
Params(domain, recordType) ==
    [name |-> domain, type |-> ToString(typeCode(recordType))]

\* response.ok: the HTTP status is in 200..299
ResponseOk(status) == 200 <= status /\ status <= 299

\* A JavaScript number that parseInt produced: a value or NaN.
NaN == [nan |-> TRUE]

Num(n) == [num |-> n]

DigitValue(ch) == (CHOOSE i \in 1..10 : Digits[i] = ch) - 1

RECURSIVE DigitPrefix(_)
DigitPrefix(s) ==
    IF Len(s) > 0 /\ s[1] \in Range(Digits)
    THEN <<s[1]>> \o DigitPrefix(Tail(s)) ELSE <<>>

RECURSIVE Decimal(_)
Decimal(ds) ==
    IF Len(ds) = 0 THEN 0
    ELSE 10 * Decimal(SubSeq(ds, 1, Len(ds) - 1)) + DigitValue(ds[Len(ds)])

\* The digits of radix 16, upper case letters standing for the lower case ones
HexTable == <<"0", "1", "2", "3", "4", "5", "6", "7", "8", "9", "a", "b", "c", "d", "e", "f">>

HexChars == Range(HexTable) \cup {"A", "B", "C", "D", "E", "F"}

HexValue(ch) ==
    LET lower == IF ch \in Range(UpperCase)
                 THEN LowerCase[CHOOSE i \in 1..Len(UpperCase) : UpperCase[i] = ch]
                 ELSE ch
    IN  (CHOOSE i \in 1..Len(HexTable) : HexTable[i] = lower) - 1

RECURSIVE HexPrefix(_)
HexPrefix(s) ==
    IF Len(s) > 0 /\ s[1] \in HexChars
    THEN <<s[1]>> \o HexPrefix(Tail(s)) ELSE <<>>

RECURSIVE Hexadecimal(_)
Hexadecimal(ds) ==
    IF Len(ds) = 0 THEN 0
    ELSE 16 * Hexadecimal(SubSeq(ds, 1, Len(ds) - 1)) + HexValue(ds[Len(ds)])

\* parseInt(s) without a radix: leading white space is skipped, then an
\* optional sign; after "0x" or "0X" the longest run of hexadecimal digits
\* is read in radix 16, else the longest run of decimal digits in radix 10;
\* no digit gives NaN.
parseInt(s) ==
    LET t == TrimLeft(s)
        neg == Len(t) > 0 /\ t[1] = "-"
        u == IF Len(t) > 0 /\ t[1] \in {"-", "+"} THEN Tail(t) ELSE t
        hex == Len(u) >= 2 /\ u[1] = "0" /\ u[2] \in {"x", "X"}
        ds == IF hex THEN HexPrefix(SubSeq(u, 3, Len(u))) ELSE DigitPrefix(u)
        n == IF hex THEN Hexadecimal(ds) ELSE Decimal(ds)
    IN  IF Len(ds) = 0 THEN NaN
        ELSE Num(IF neg THEN 0 - n ELSE n)

\* s.split(' ')[0]: the part of s before its first space
RECURSIVE SplitFirst(_)
SplitFirst(s) ==
    IF Len(s) = 0 \/ s[1] = " " THEN <<>>
    ELSE <<s[1]>> \o SplitFirst(Tail(s))

\* The values a parsed JSON body can hold where the code reads them.  A body
\* is JNull or an object [t |-> "object", ...] whose fields Status and Answer
\* may be missing; Answer is JNull, a string or an array of elements; an
\* element is JNull or an object whose field data may be missing.
JNull == [t |-> "null"]

\* The value of a variable that has not been assigned
Undefined == [t |-> "undefined"]

JArray(items) == [t |-> "array", items |-> items]

JString(s) == [t |-> "string", s |-> s]

\* JavaScript truthiness of a value read from the body (undefined is a
\* missing field and is handled where the field is read)
Truthy(v) ==
    CASE v.t = "null" -> FALSE
      [] v.t = "string" -> v.s # <<>>
      [] OTHER -> TRUE

TypeError(what) == <<"TypeError: ", what>>

\* Whether the callback of data.Answer.map throws on this element:
\* answer.type of null, or answer.data.split of undefined for type 15.
ElementThrows(answer) ==
    \/ answer.t = "null"
    \/ answer.type = 15 /\ "data" \notin DOMAIN answer

\* A callback that parses a priority out of every element that has data
MapAnswerAnyType(answer) ==
    LET base == [type |-> typeName(answer.type), name |-> answer.name,
                 ttl |-> answer.TTL]
    IN  IF "data" \in DOMAIN answer
        THEN base @@ [value |-> answer.data,
                      priority |-> parseInt(SplitFirst(answer.data))]
        ELSE base

\* The callback of data.Answer.map: one DNSRecord per answer element.  A
\* missing data field leaves value undefined (no value field); priority is
\* undefined (no priority field) unless the answer's type is 15.
MapAnswer(answer) ==
    LET base == [type |-> typeName(answer.type), name |-> answer.name,
                 ttl |-> answer.TTL]
        withValue == IF "data" \in DOMAIN answer
                     THEN base @@ [value |-> answer.data] ELSE base
    IN  IF answer.type = 15
        THEN withValue @@ [priority |-> parseInt(SplitFirst(answer.data))]
        ELSE withValue

NxdomainError == <<"NXDOMAIN", " - Domain does not exist">>

\* What the body of the try block does with the parsed body `data`: it
\* returns a result, throws, or falls out of the if/else-if to the end of
\* the loop body.
\* data.Status === 0 && data.Answer
IsSuccess(data) ==
    /\ "Status" \in DOMAIN data /\ data.Status = 0
    /\ "Answer" \in DOMAIN data /\ Truthy(data.Answer)

\* The success branch: data.Answer.map(...) and the result without error
InterpretSuccess(data, domain, recordType) ==
    IF data.Answer.t # "array" THEN
        [kind |-> "throw", error |-> TypeError("data.Answer.map is not a function")]
    ELSE IF \E i \in 1..Len(data.Answer.items) : ElementThrows(data.Answer.items[i]) THEN
        [kind |-> "throw", error |-> TypeError("Cannot read properties of undefined")]
    ELSE
        [kind |-> "return",
         result |-> [domain |-> domain, recordType |-> recordType,
                     records |-> [i \in 1..Len(data.Answer.items) |->
                                    MapAnswer(data.Answer.items[i])]]]

\* The branch of data.Status === 3
InterpretNxdomain(domain, recordType) ==
    [kind |-> "return",
     result |-> [domain |-> domain, recordType |-> recordType,
                 records |-> <<>>, error |-> NxdomainError]]

\* Interpret without the branch of Status 3
InterpretWithoutNxdomain(data, domain, recordType) ==
    IF data.t = "null" THEN
        [kind |-> "throw", error |-> TypeError("Cannot read properties of null")]
    ELSE IF IsSuccess(data) THEN InterpretSuccess(data, domain, recordType)
    ELSE [kind |-> "fallthrough"]

Interpret(data, domain, recordType) ==
    IF data.t = "null" THEN
        [kind |-> "throw", error |-> TypeError("Cannot read properties of null")]
    ELSE IF IsSuccess(data) THEN InterpretSuccess(data, domain, recordType)
    ELSE IF "Status" \in DOMAIN data /\ data.Status = 3 THEN
        InterpretNxdomain(domain, recordType)
    ELSE [kind |-> "fallthrough"]

\* `Server ${server} returned ${response.status}`
ReturnedMessage(server, status) ==
    <<"Server ">> \o server \o <<" returned ", ToString(status)>>

\* `Server ${server} failed: ${error}`
FailedMessage(server, error) == <<"Server ">> \o server \o <<" failed: ">> \o error

\* `All DNS servers failed: ${errors.join(', ')}`
AllFailedError(errors) == <<"All DNS servers failed: ">> \o Join(errors, <<", ">>)

\* A try block around the fetch alone
InTryFetchOnly(site) == site = "fetch"

\* A try block that starts after the fetch
InTryAfterFetch(site) == site \in {"json", "interpret"}

\* The sites of lookupDNS where an exception can arise, and whether the try
\* block encloses them.
InTry(site) == site \in {"fetch", "json", "interpret"}

\* An iteration that requests the same server again
NextServerSame(i) == i

\* for (const server of DNS_OVER_HTTPS_SERVERS): the index the iteration
\* moves to
NextServer(i) == i + 1

\* The request lookupDNS sends to the i-th server
Request(i, params) == [server |-> i, url |-> DNS_OVER_HTTPS_SERVERS[i], params |-> params]

\* lookupDNS(domain, recordType) up to its first await: the fetch of the
\* first server is outstanding.  sent lists the requests issued so far;
\* pending holds the servers whose attempt has not finished; data is the
\* body parsed last; answeredBy is the server whose answer made the call
\* return, 0 when there is none.
NewCall(domain, recordType) ==
    [domain |-> domain, recordType |-> recordType,
     params |-> Params(domain, recordType),
     errors |-> <<>>, server |-> 1, pc |-> "fetch",
     sent |-> <<Request(1, Params(domain, recordType))>>,
     pending |-> {1}, data |-> Undefined, answeredBy |-> 0]

\* A return that reports the messages of earlier servers also on success
ReturnKeepingErrors(call, result, usable) ==
    [domain |-> call.domain, recordType |-> call.recordType,
     params |-> call.params, errors |-> call.errors, server |-> call.server,
     pc |-> "returned", sent |-> call.sent, pending |-> {}, data |-> call.data,
     answeredBy |-> IF usable THEN call.server ELSE 0,
     result |-> IF call.errors # <<>> /\ "error" \notin DOMAIN result
                THEN result @@ [error |-> Join(call.errors, <<", ">>)]
                ELSE result]

\* lookupDNS returns `result`; usable tells whether the current server's
\* answer produced it.
Return(call, result, usable) ==
    [domain |-> call.domain, recordType |-> call.recordType,
     params |-> call.params, errors |-> call.errors, server |-> call.server,
     pc |-> "returned", sent |-> call.sent, pending |-> {}, data |-> call.data,
     answeredBy |-> IF usable THEN call.server ELSE 0,
     result |-> result]

\* An exception leaves lookupDNS: the promise it returned rejects.
Throw(call) == [call EXCEPT !.pc = "threw", !.pending = {}]

\* The end of one iteration of the loop: the next server is fetched, or the
\* loop is over and the all-failed result is returned.
Advance(call) ==
    IF call.server < Len(DNS_OVER_HTTPS_SERVERS) THEN
        LET n == NextServer(call.server) IN
        [call EXCEPT !.server = n, !.pc = "fetch",
                     !.sent = Append(@, Request(n, call.params)),
                     !.pending = (@ \ {call.server}) \cup {n}]
    ELSE
        Return(call,
               [domain |-> call.domain, recordType |-> call.recordType,
                records |-> <<>>, error |-> AllFailedError(call.errors)],
               FALSE)

\* errors.unshift(message): the newest message first
PushErrorFront(call, message) == [call EXCEPT !.errors = <<message>> \o @]

\* errors.push(message)
PushError(call, message) == [call EXCEPT !.errors = Append(@, message)]

\* The catch block, or the exception leaving lookupDNS where the try block
\* does not enclose the site.
Raise(call, site, error) ==
    IF InTry(site)
    THEN Advance(PushError(call, FailedMessage(DNS_OVER_HTTPS_SERVERS[call.server], error)))
    ELSE Throw(call)

\* The promise of fetch settles: it rejects, or fulfils with a response.
FetchStep(call, outcome) ==
    IF outcome.kind = "reject" THEN Raise(call, "fetch", outcome.error)
    ELSE IF ~ResponseOk(outcome.status) THEN
        Advance(PushError(call,
            ReturnedMessage(DNS_OVER_HTTPS_SERVERS[call.server], outcome.status)))
    ELSE [call EXCEPT !.pc = "json"]

\* The promise of response.json() settles: it rejects (the body is no
\* JSON), or fulfils with the parsed body.
JsonStep(call, outcome) ==
    IF outcome.kind = "reject" THEN Raise(call, "json", outcome.error)
    ELSE
        LET r == Interpret(outcome.data, call.domain, call.recordType)
            withData == [call EXCEPT !.data = outcome.data]
        IN
        CASE r.kind = "throw" -> Raise(withData, "interpret", r.error)
          [] r.kind = "return" -> Return(withData, r.result, TRUE)
          [] r.kind = "fallthrough" -> Advance(withData)

----------------------------------------------------------------------------
(* lib/dns: analyzeAttackSurface *)

SPF_PREFIX == <<"v=spf1">>

DMARC_PREFIX == <<"v=dmarc1">>

SpfMissingDelta == 25

SpfInvalidDelta == 15

DmarcMissingDelta == 25

DmarcInvalidDelta == 10

DnssecMissingDelta == 10

MxMissingDelta == 15

NsInsufficientDelta == 5

RiskScoreCap == 100

MinNameservers == 2

SpfMissingIssue ==
    [id |-> "spf-missing", severity |-> "high", category |-> "Email Security",
     title |-> "SPF Record Missing",
     description |-> "No SPF record found for domain. This could allow email spoofing.",
     recommendation |-> "Add an SPF record to specify authorized mail servers."]

SpfInvalidIssue ==
    [id |-> "spf-invalid", severity |-> "medium", category |-> "Email Security",
     title |-> "SPF Record Invalid",
     description |-> "SPF record exists but may be misconfigured.",
     recommendation |-> "Review SPF syntax and ensure it covers all authorized servers."]

DmarcMissingIssue ==
    [id |-> "dmarc-missing", severity |-> "high", category |-> "Email Security",
     title |-> "DMARC Record Missing",
     description |-> "No DMARC record found. This leaves domain vulnerable to email spoofing.",
     recommendation |-> "Implement DMARC policy to protect your domain from email spoofing."]

DmarcInvalidIssue ==
    [id |-> "dmarc-invalid", severity |-> "medium", category |-> "Email Security",
     title |-> "DMARC Record Invalid",
     description |-> "DMARC record exists but may be misconfigured.",
     recommendation |-> "Review DMARC policy syntax and alignment settings."]

DnssecMissingIssue ==
    [id |-> "dnssec-missing", severity |-> "low", category |-> "DNSSEC",
     title |-> "DNSSEC Not Configured",
     description |-> "Domain does not appear to have DNSSEC enabled.",
     recommendation |-> "Consider enabling DNSSEC to protect against DNS spoofing attacks."]

MxMissingIssue ==
    [id |-> "mx-missing", severity |-> "medium", category |-> "Email Delivery",
     title |-> "MX Records Missing",
     description |-> "No MX records found. Domain cannot receive emails.",
     recommendation |-> "Add MX records if you expect to receive emails."]

NsInsufficientIssue ==
    [id |-> "ns-insufficient", severity |-> "low", category |-> "Infrastructure",
     title |-> "Insufficient Nameservers",
     description |-> "Domain has fewer than 2 nameservers, which may affect redundancy.",
     recommendation |-> "Use at least 2 nameservers for redundancy."]

\* r.value.startsWith(prefix) on a record that has a value
ValueStartsWith(r, prefix) == "value" \in DOMAIN r /\ StartsWith(r.value, prefix)

\* records.find(r => r.value.includes(prefix))
FindIndexIncludes(records, prefix) ==
    IF \E i \in 1..Len(records) : Includes(records[i].value, prefix)
    THEN CHOOSE i \in 1..Len(records) :
            /\ Includes(records[i].value, prefix)
            /\ \A j \in 1..(i - 1) : ~Includes(records[j].value, prefix)
    ELSE 0

\* records.find(r => r.value.startsWith(prefix)): the index of the first
\* record whose value starts with prefix, 0 when there is none.
FindIndex(records, prefix) ==
    IF \E i \in 1..Len(records) : ValueStartsWith(records[i], prefix)
    THEN CHOOSE i \in 1..Len(records) :
            /\ ValueStartsWith(records[i], prefix)
            /\ \A j \in 1..(i - 1) : ~ValueStartsWith(records[j], prefix)
    ELSE 0

\* Whether the callback of find throws: it reads r.value.startsWith on a
\* record without value before it has found a match.
FindThrows(records, prefix) ==
    \E i \in 1..Len(records) :
        /\ "value" \notin DOMAIN records[i]
        /\ \A j \in 1..(i - 1) :
              "value" \in DOMAIN records[j] /\ ~StartsWith(records[j].value, prefix)

\* A check whose valid asks for a record that is the prefix and nothing else
TxtCheckExact(records, prefix) ==
    LET i == FindIndex(records, prefix) IN
    IF i = 0 THEN [present |-> FALSE, valid |-> FALSE]
    ELSE [present |-> TRUE, valid |-> records[i].value = prefix,
          record |-> records[i].value]

\* const spf = {present, valid, record} and const dmarc = {...}: valid
\* looks for the prefix anywhere in the record found; record is undefined
\* (no field) when none was found.
TxtCheck(records, prefix) ==
    LET i == FindIndex(records, prefix) IN
    IF i = 0 THEN [present |-> FALSE, valid |-> FALSE]
    ELSE [present |-> TRUE, valid |-> Includes(records[i].value, prefix),
          record |-> records[i].value]

\* const dnssec = {present, signed}
DnssecCheck(records) == [present |-> Len(records) > 0, signed |-> FALSE]

\* r => r.value over the records (undefined is kept as the atom "undefined")
ValueOf(r) == IF "value" \in DOMAIN r THEN r.value ELSE <<"undefined">>

\* const mx = {present, records} and const ns = {present, records}
ListCheck(records) ==
    [present |-> Len(records) > 0, records |-> [i \in 1..Len(records) |-> ValueOf(records[i])]]

\* issues.push(issue) without riskScore += delta
FireWithoutScore(acc, issue, delta) ==
    [issues |-> Append(acc.issues, issue), riskScore |-> acc.riskScore]

\* issues.push(issue); riskScore += delta
Fire(acc, issue, delta) ==
    [issues |-> Append(acc.issues, issue), riskScore |-> acc.riskScore + delta]

RuleSpf(acc, spf) ==
    IF ~spf.present THEN Fire(acc, SpfMissingIssue, SpfMissingDelta)
    ELSE IF ~spf.valid THEN Fire(acc, SpfInvalidIssue, SpfInvalidDelta)
    ELSE acc

RuleDmarc(acc, dmarc) ==
    IF ~dmarc.present THEN Fire(acc, DmarcMissingIssue, DmarcMissingDelta)
    ELSE IF ~dmarc.valid THEN Fire(acc, DmarcInvalidIssue, DmarcInvalidDelta)
    ELSE acc

\* The DNSSEC rule left out
RuleDnssecSkipped(acc, dnssec) == acc

RuleDnssec(acc, dnssec) ==
    IF ~dnssec.present THEN Fire(acc, DnssecMissingIssue, DnssecMissingDelta) ELSE acc

\* A nameserver rule that looks at ns.present
RuleNsWhenAbsent(acc, ns) ==
    IF ~ns.present THEN Fire(acc, NsInsufficientIssue, NsInsufficientDelta) ELSE acc

RuleMx(acc, mx) ==
    IF ~mx.present THEN Fire(acc, MxMissingIssue, MxMissingDelta) ELSE acc

RuleNs(acc, ns) ==
    IF Len(ns.records) < MinNameservers
    THEN Fire(acc, NsInsufficientIssue, NsInsufficientDelta) ELSE acc

\* A clamp at half of the cap
ClampScoreAtHalf(score) == Min(score, RiskScoreCap \div 2)

\* The records of the SPF lookup taken for the DMARC check
DmarcRecordsOfSpf(results) == results[1].records

\* dmarcResult.records: the records of the second lookup of the array
DmarcRecords(results) == results[2].records

\* riskScore = Math.min(riskScore, 100)
ClampScore(score) == Min(score, RiskScoreCap)

\* The part of analyzeAttackSurface after the await: results are the five
\* lookup results in the order of the array given to Promise.all.  It
\* returns the AttackSurfaceResult, or throws.
AnalyzeResults(domain, results) ==
    LET spfRecords == results[1].records
        dmarcRecords == DmarcRecords(results)
    IN
    IF FindThrows(spfRecords, SPF_PREFIX) \/ FindThrows(dmarcRecords, DMARC_PREFIX)
    THEN [kind |-> "throw"]
    ELSE
        LET spf == TxtCheck(spfRecords, SPF_PREFIX)
            dmarc == TxtCheck(dmarcRecords, DMARC_PREFIX)
            dnssec == DnssecCheck(results[3].records)
            mx == ListCheck(results[4].records)
            ns == ListCheck(results[5].records)
            acc == RuleNs(RuleMx(RuleDnssec(RuleDmarc(RuleSpf(
                       [issues |-> <<>>, riskScore |-> 0], spf), dmarc), dnssec), mx), ns)
        IN  [kind |-> "return",
             result |-> [domain |-> domain,
                         riskScore |-> ClampScore(acc.riskScore),
                         issues |-> acc.issues,
                         checks |-> [spf |-> spf, dmarc |-> dmarc, dnssec |-> dnssec,
                                     mx |-> mx, ns |-> ns]]]

\* The record types of the five lookups of analyzeAttackSurface, in the
\* order of the array given to Promise.all
AnalyzeTypes == <<"TXT", "TXT", "SOA", "MX", "NS">>

----------------------------------------------------------------------------
(* components/AttackSurfaceTool: the list of issues it renders *)

severityOrder == <<"critical", "high", "medium", "low">>

\* severityOrder.indexOf(severity): counted from 0, -1 when it is not there
IndexOf(list, x) ==
    IF \E i \in 1..Len(list) : list[i] = x
    THEN (CHOOSE i \in 1..Len(list) : list[i] = x /\ \A j \in 1..(i - 1) : list[j] # x) - 1
    ELSE 0 - 1

\* The issues of the ranks from `rank` on, each rank in the order of `issues`
RECURSIVE FromRank(_, _)
FromRank(issues, rank) ==
    IF rank >= Len(severityOrder) THEN <<>>
    ELSE SelectSeq(issues, LAMBDA i : IndexOf(severityOrder, i.severity) = rank)
         \o FromRank(issues, rank + 1)

\* issues.sort((a, b) => severityOrder.indexOf(a.severity) -
\* severityOrder.indexOf(b.severity)): the sort is stable
SortBySeverity(issues) == FromRank(issues, 0 - 1)

\* A render that sorts result.issues itself
RenderIssuesInPlace(result) ==
    [result |-> [result EXCEPT !.issues = SortBySeverity(@)],
     shown |-> SortBySeverity(result.issues)]

\* The render of the issues: [...result.issues].sort(...) sorts a copy;
\* `result` is the state after the render and `shown` the list on the page.
RenderIssues(result) == [result |-> result, shown |-> SortBySeverity(result.issues)]

----------------------------------------------------------------------------
(* components/InfrastructureGraph: the graph build of handleAnalyze *)

GraphTypes == <<"A", "AAAA", "MX", "NS", "CNAME">>

\* the lower-case prefix of the node ids of each relation
NodeType(recordType) ==
    CASE recordType = "A" -> "a"
      [] recordType = "AAAA" -> "aaaa"
      [] recordType = "MX" -> "mx"
      [] recordType = "NS" -> "ns"
      [] recordType = "CNAME" -> "cname"

\* const nodeId = `a-${record.value}` (and `aaaa-`, `mx-`, `ns-`, `cname-`)
NodeId(recordType, record) == <<NodeType(recordType), "-">> \o ValueOf(record)

\* nodes.push({id: nodeId, type, label: record.value, value: record.value})
RecordNode(recordType, record) ==
    LET base == [id |-> NodeId(recordType, record), type |-> NodeType(recordType)] IN
    IF "value" \in DOMAIN record
    THEN base @@ [label |-> record.value, value |-> record.value]
    ELSE base

\* A link that points from the record's node to the root
RecordLinkReversed(cleanDomain, recordType, record) ==
    [source |-> NodeId(recordType, record), target |-> cleanDomain, type |-> recordType]

\* links.push({source: cleanDomain, target: nodeId, type})
RecordLink(cleanDomain, recordType, record) ==
    [source |-> cleanDomain, target |-> NodeId(recordType, record), type |-> recordType]

\* The five forEach loops run from the last relation to the first
RECURSIVE GraphNodesBackwards(_, _)
GraphNodesBackwards(results, k) ==
    IF k > Len(GraphTypes) THEN <<>>
    ELSE GraphNodesBackwards(results, k + 1)
         \o [i \in 1..Len(results[k].records) |->
                RecordNode(GraphTypes[k], results[k].records[i])]

\* The five forEach loops, from relation k on
RECURSIVE GraphNodesFrom(_, _)
GraphNodesFrom(results, k) ==
    IF k > Len(GraphTypes) THEN <<>>
    ELSE [i \in 1..Len(results[k].records) |->
             RecordNode(GraphTypes[k], results[k].records[i])]
         \o GraphNodesFrom(results, k + 1)

RECURSIVE GraphLinksFrom(_, _, _)
GraphLinksFrom(cleanDomain, results, k) ==
    IF k > Len(GraphTypes) THEN <<>>
    ELSE [i \in 1..Len(results[k].records) |->
             RecordLink(cleanDomain, GraphTypes[k], results[k].records[i])]
         \o GraphLinksFrom(cleanDomain, results, k + 1)

\* The graph handed to setGraphData
BuildGraph(cleanDomain, results) ==
    [nodes |-> <<[id |-> cleanDomain, type |-> "domain", label |-> cleanDomain]>>
               \o GraphNodesFrom(results, 1),
     links |-> GraphLinksFrom(cleanDomain, results, 1)]

----------------------------------------------------------------------------
(* lib/dns: generateTestSubdomain, and components/SubdomainTestTool *)

\* The digits of radix 36
Base36 == Digits \o LowerCase

\* A value of Math.random() is given by the digits of its expansion in
\* radix 36, as numbers 0..35: <<18>> is 0.5 and <<>> is 0.
RECURSIVE StripZeros(_)
StripZeros(ds) ==
    IF Len(ds) > 0 /\ ds[Len(ds)] = 0 THEN StripZeros(SubSeq(ds, 1, Len(ds) - 1)) ELSE ds

\* Number.prototype.toString(36) of such a value: "0" for zero, else "0."
\* and the digits up to the last one that is not zero
ToString36(random) ==
    LET ds == StripZeros(random) IN
    IF Len(ds) = 0 THEN <<"0">>
    ELSE <<"0", ".">> \o [i \in 1..Len(ds) |-> Base36[ds[i] + 1]]

\* String.prototype.substring(from, to) for 0 <= from <= to
Substring(str, from, to) == SubSeq(str, Min(from, Len(str)) + 1, Min(to, Len(str)))

\* generateTestSubdomain(baseDomain), `random` being the value Math.random()
\* returns
generateTestSubdomain(baseDomain, random) ==
    <<"t", "e", "s", "t", "-">> \o Substring(ToString36(random), 2, 8)
    \o <<".">> \o baseDomain

\* const dnsServers of handleCheckPropagation
dnsServers ==
    << [name |-> "Google", url |-> <<"https://dns.google/resolve">>],
       [name |-> "Cloudflare", url |-> <<"https://cloudflare-dns.com/dns-query">>],
       [name |-> "Quad9", url |-> <<"https://dns.quad9.net:5053/dns-query">>] >>

\* fetch(`${server.url}?name=${testSubdomain}&type=A`, ...)
PropagationRequest(i, testSubdomain) ==
    [server |-> i,
     url |-> dnsServers[i].url \o <<"?name=">> \o testSubdomain \o <<"&type=A">>]

\* An index that is always the first entry
ResultIndexFirst(check) == 1

\* newResults.findIndex(r => r.subdomain === server.name): the entry pushed
\* for the server of the current iteration
ResultIndex(check) ==
    CHOOSE i \in 1..Len(check.newResults) :
        check.newResults[i].subdomain = dnsServers[check.server].name

\* The first iteration of the loop up to its await
StartCheck(testSubdomain) ==
    [kind |-> "subdomain", pc |-> "fetch", server |-> 1,
     testSubdomain |-> testSubdomain,
     newResults |-> <<[subdomain |-> dnsServers[1].name, status |-> "checking"]>>,
     sent |-> <<PropagationRequest(1, testSubdomain)>>]

\* newResults[idx] = entry, and the loop goes on: the next server is pushed
\* as checking and fetched, or the loop is over.
Conclude(check, entry) ==
    LET written == [check.newResults EXCEPT ![ResultIndex(check)] = entry] IN
    IF check.server < Len(dnsServers) THEN
        LET n == check.server + 1 IN
        [check EXCEPT
            !.server = n, !.pc = "fetch",
            !.newResults = Append(written, [subdomain |-> dnsServers[n].name,
                                            status |-> "checking"]),
            !.sent = Append(@, PropagationRequest(n, check.testSubdomain))]
    ELSE [check EXCEPT !.pc = "done", !.newResults = written]

ConnectionFailed(check) ==
    [subdomain |-> dnsServers[check.server].name, status |-> "error",
     error |-> <<"Connection failed">>]

RequestFailed(check) ==
    [subdomain |-> dnsServers[check.server].name, status |-> "error",
     error |-> <<"Request failed">>]

NotFound(check) == [subdomain |-> dnsServers[check.server].name, status |-> "not_found"]

\* {subdomain, status: 'found', ip: data.Answer[0].data}: ip is undefined
\* (no field) when the first element has no data
Found(check, first) ==
    IF first.t = "object" /\ "data" \in DOMAIN first
    THEN [subdomain |-> dnsServers[check.server].name, status |-> "found",
          ip |-> first.data]
    ELSE [subdomain |-> dnsServers[check.server].name, status |-> "found"]

\* The promise of fetch settles
PropagationFetchStep(check, outcome) ==
    IF outcome.kind = "reject" THEN Conclude(check, ConnectionFailed(check))
    ELSE IF ~ResponseOk(outcome.status) THEN Conclude(check, RequestFailed(check))
    ELSE [check EXCEPT !.pc = "json"]

\* The promise of response.json() settles: data.Answer && data.Answer.length > 0
PropagationJsonStep(check, outcome) ==
    IF outcome.kind = "reject" \/ outcome.data.t = "null"
    THEN Conclude(check, ConnectionFailed(check))
    ELSE IF "Answer" \notin DOMAIN outcome.data \/ ~Truthy(outcome.data.Answer)
    THEN Conclude(check, NotFound(check))
    ELSE IF outcome.data.Answer.t = "string"
    THEN Conclude(check, Found(check, JString(<<outcome.data.Answer.s[1]>>)))
    ELSE IF Len(outcome.data.Answer.items) = 0 THEN Conclude(check, NotFound(check))
    ELSE IF outcome.data.Answer.items[1].t = "null"
    THEN Conclude(check, ConnectionFailed(check))
    ELSE Conclude(check, Found(check, outcome.data.Answer.items[1]))

----------------------------------------------------------------------------
(* lib/utils: isValidIP, lib/dns: getIPIntelligence *)

\* The parts of str between the separators
RECURSIVE Split(_, _)
Split(str, sep) ==
    IF \E i \in 1..Len(str) : str[i] = sep
    THEN LET i == CHOOSE k \in 1..Len(str) :
                    str[k] = sep /\ \A j \in 1..(k - 1) : str[j] # sep
         IN  <<SubSeq(str, 1, i - 1)>> \o Split(SubSeq(str, i + 1, Len(str)), sep)
    ELSE <<str>>

\* /^(\d{1,3}\.){3}\d{1,3}$/ or /^([0-9a-fA-F]{1,4}:){7}[0-9a-fA-F]{1,4}$/
isValidIP(ip) ==
    LET quads == Split(ip, ".")
        groups == Split(ip, ":")
    IN  \/ /\ Len(quads) = 4
           /\ \A i \in 1..4 :
                 Len(quads[i]) \in 1..3 /\ Range(quads[i]) \subseteq Range(Digits)
        \/ /\ Len(groups) = 8
           /\ \A i \in 1..8 :
                 Len(groups[i]) \in 1..4 /\ Range(groups[i]) \subseteq HexChars

\* The fields the request asks the service for
IpFields ==
    {"status", "message", "country", "countryCode", "region", "regionName", "city",
     "isp", "org", "as", "lat", "lon", "timezone", "mobile", "proxy", "hosting"}

\* The value of a field of the body, undefined when the body lacks it
Field(data, f) == IF f \in DOMAIN data THEN data[f] ELSE Undefined

\* The part of getIPIntelligence after response.json(): the record it
\* returns, or null where it throws into its catch block (a body that is
\* null, a status other than 'success', a body without query)
IpInterpret(data) ==
    IF data.t = "null" THEN JNull
    ELSE IF "status" \notin DOMAIN data \/ data.status # "success" THEN JNull
    ELSE IF "query" \notin DOMAIN data THEN JNull
    ELSE [t |-> "object", ip |-> data.query,
          version |-> IF Includes(data.query, <<":">>) THEN 6 ELSE 4,
          country |-> Field(data, "country"), countryCode |-> Field(data, "countryCode"),
          region |-> Field(data, "regionName"), city |-> Field(data, "city"),
          isp |-> Field(data, "isp"), org |-> Field(data, "org"),
          asn |-> Field(data, "as"), lat |-> Field(data, "lat"),
          lon |-> Field(data, "lon"), timezone |-> Field(data, "timezone"),
          isMobile |-> Field(data, "mobile"), isProxy |-> Field(data, "proxy"),
          isHosting |-> Field(data, "hosting")]

\* getIPIntelligence(ip) up to its first await
NewIpCall(ip) ==
    [kind |-> "ip", pc |-> "fetch", ip |-> ip,
     url |-> <<"http://ip-api.com/json/">> \o ip \o <<"?fields=">>,
     fields |-> IpFields]

----------------------------------------------------------------------------
(* components/DNSLookupTool: the history *)

\* .slice(0, 20)
HistoryCap == 20

RECORD_TYPES == <<"A", "AAAA", "MX", "TXT", "CNAME", "NS", "SOA", "PTR", "SRV">>

\* new Date() at clock reading t
NewDate(t) == [time |-> t]

\* Date.prototype.toJSON, which JSON.stringify applies: the ISO string of
\* the date, exact to the millisecond
ToJSON(date) == [iso |-> date.time]

\* new Date(h.timestamp) on the ISO string read back
ParseDate(str) == [time |-> str.iso]

\* {id: `${Date.now()}`, domain: cleanDomain, recordType, timestamp: new Date()}
HistoryItem(domain, recordType, t) ==
    [id |-> ToString(t), domain |-> domain, recordType |-> recordType,
     timestamp |-> NewDate(t)]

\* JSON.stringify(updated)
JsonStringify(items) ==
    [t |-> "json",
     items |-> [i \in 1..Len(items) |->
                  [id |-> items[i].id, domain |-> items[i].domain,
                   recordType |-> items[i].recordType,
                   timestamp |-> ToJSON(items[i].timestamp)]]]

\* The effect run at mount: the history read from the item `saved`
LoadHistory(saved) ==
    IF saved.t = "null" THEN <<>>
    ELSE [i \in 1..Len(saved.items) |->
            [id |-> saved.items[i].id, domain |-> saved.items[i].domain,
             recordType |-> saved.items[i].recordType,
             timestamp |-> ParseDate(saved.items[i].timestamp)]]

\* history.filter(h => h.domain !== item.domain || h.recordType !== item.recordType)
RECURSIVE FilterOut(_, _)
FilterOut(items, item) ==
    IF Len(items) = 0 THEN <<>>
    ELSE IF items[1].domain # item.domain \/ items[1].recordType # item.recordType
         THEN <<items[1]>> \o FilterOut(Tail(items), item)
         ELSE FilterOut(Tail(items), item)

\* .slice(0, n)
Slice(items, n) == SubSeq(items, 1, Min(n, Len(items)))

\* The list without the filter
SaveHistoryUnfiltered(captured, item) == Slice(<<item>> \o captured, HistoryCap)

\* The list without the slice
SaveHistoryUncapped(captured, item) == <<item>> \o FilterOut(captured, item)

\* saveHistory(item): the list `updated`, built from the history its
\* closure captured
SaveHistory(captured, item) ==
    Slice(<<item>> \o FilterOut(captured, item), HistoryCap)

\* A handler that saves whatever the result
SaveAlways(result) == TRUE

\* if (!lookupResult.error)
SaveAllowed(result) == "error" \notin DOMAIN result \/ result.error = <<>>

\* The clock reading at which the session starts: later than every
\* timestamp of a stored list
SessionStart == HistoryCap

----------------------------------------------------------------------------
(* The environment: what the user types and what the servers answer *)

\* The largest number of records in one answer of a batch lookup
MaxRecords == 2

ACo == <<"a", ".", "c", "o">>

BIo == <<"b", ".", "i", "o">>

\* What the user may have typed into a tool's domain field: nothing, a
\* blank, a name the regex rejects, and " A.co", which cleans to a.co
Inputs == {<<>>, <<" ">>, <<"a", ".", "c">>, <<" ", "A", ".", "c", "o">>}

\* What the user may have typed into the domain field of the graph tool:
\* the same, and "a-b.co"
GraphInputs == Inputs \cup {<<"a", "-", "b", ".", "c", "o">>}

\* The arguments of a direct call of lookupDNS
LookupDomains == {ACo, BIo}

LookupTypes == RecordTypes

\* The largest type code a server puts into an answer element
MaxCode == 34

\* One element of an Answer array
Element(code, data) ==
    [t |-> "object", type |-> code, name |-> <<"a.co.">>, TTL |-> 300, data |-> data]

\* The same without its data field
ElementNoData(code) == [t |-> "object", type |-> code, name |-> <<"a.co.">>, TTL |-> 300]

\* The data of the i-th record of an answer of the given type
Data(recordType, i) ==
    CASE recordType = "A" -> <<"192.0.2.", ToString(i)>>
      [] recordType = "AAAA" -> <<"2001:db8::", ToString(i)>>
      [] recordType = "MX" -> <<ToString(i), "0", " ", "mx", ToString(i), ".a.co.">>
      [] recordType = "NS" -> <<"ns", ToString(i), ".a.co.">>
      [] recordType = "CNAME" -> <<"alias", ToString(i), ".a.co.">>
      [] recordType = "SOA" -> <<"ns1.a.co. admin.a.co. ", ToString(i)>>

SpfData == <<"v=spf1", " include:_spf.example.com ~all">>

SpfAltData == <<"v=spf1", " -all">>

DmarcLowerData == <<"v=dmarc1", "; p=none">>

DmarcUpperData == <<"v=DMARC1", "; p=reject">>

EmbeddedData == <<"note ", "v=spf1", " ", "v=dmarc1">>

OtherData == <<"google-site-verification=abc">>

Txt(data) == Element(16, data)

TxtAnswers ==
    { <<>>,
      <<Txt(SpfData)>>,
      <<Txt(OtherData), Txt(SpfData), Txt(SpfAltData)>>,
      <<Txt(DmarcLowerData)>>,
      <<Txt(EmbeddedData), Txt(DmarcUpperData)>>,
      <<Txt(SpfAltData), Txt(DmarcLowerData)>> }

\* The data of an A record that, prefixed with "a-", spells the domain a-b.co
BCoData == <<"b", ".", "c", "o">>

\* Answers to the A lookup of the graph build that hold the same value twice,
\* or the value BCoData
RepeatingAnswers ==
    { <<Element(1, Data("A", 1)), Element(1, Data("A", 1))>>,
      <<Element(1, BCoData)>> }

\* The Answer arrays a server may give to a lookup of a batch
Answers(recordType) ==
    IF recordType = "TXT" THEN TxtAnswers
    ELSE { [i \in 1..n |-> Element(typeCode(recordType), Data(recordType, i))] :
             n \in 0..MaxRecords }
         \cup (IF recordType = "A" THEN RepeatingAnswers ELSE {})

Body(status) == [t |-> "object", Status |-> status]

BodyWith(status, answer) == [t |-> "object", Status |-> status, Answer |-> answer]

\* The Answer values a server may give to a direct call of lookupDNS
LookupAnswers ==
    { JNull, JString(<<>>), JString(<<"none">>),
      JArray(<<>>),
      JArray(<<Element(1, <<"192.0.2.", "1">>)>>),
      JArray(<<Element(15, Data("MX", 1)), Element(1, <<"192.0.2.", "1">>)>>),
      JArray(<<Element(15, <<"mail", " ", "1", "0">>)>>),
      JArray(<<Element(15, <<" ", "7", " ", "m">>), Element(15, <<"-", "5", " ", "m">>),
               Element(15, <<"1", "2", "x", " ", "m">>), Element(15, <<"5">>),
               Element(15, <<"0", "x", "1", "A", " ", "m">>)>>),
      JArray(<<Element(5, Data("CNAME", 1)), Element(99, <<"opaque">>)>>),
      JArray(<<ElementNoData(1)>>),
      JArray(<<Element(1, <<"192.0.2.", "1">>), ElementNoData(15)>>),
      JArray(<<JNull>>) }

\* One-element Answer arrays of every type code
CodedAnswers == {JArray(<<Element(code, Data("MX", 1))>>) : code \in 0..MaxCode}

\* The parsed bodies a server may give to a direct call of lookupDNS
LookupBodies ==
    {JNull, [t |-> "object"], Body(0), Body(2), Body(3)}
    \cup {BodyWith(0, a) : a \in LookupAnswers \cup CodedAnswers}
    \cup {BodyWith(3, JArray(<<Element(1, <<"192.0.2.", "1">>)>>)),
          BodyWith(2, JArray(<<Element(1, <<"192.0.2.", "1">>)>>))}

\* What the user may have typed into the domain field of the DNS lookup
\* tool: the same, and "b.io"
ToolInputs == Inputs \cup {BIo}

\* The record type selected in the DNS lookup tool: its initial value
ToolTypes == {"A"}

\* The Answer array a server gives to a lookup of the DNS lookup tool
ToolAnswer(recordType) == <<Element(typeCode(recordType), Data(recordType, 1))>>

\* The most lookups that add to the history in one session
MaxSaves == 2

\* The most lookups of the DNS lookup tool in flight together
MaxInFlight == 2

\* The history an earlier session left in localStorage: the pairs
\* StoredPair(1) .. StoredPair(n), looked up in this order at the clock
\* readings 1 .. n, so the newest is first.  (a.co, A) is the oldest, and
\* (a.co, AAAA), (a.co, MX) follow it.
StoredDomains == <<ACo, <<"c", ".", "i", "o">>, <<"d", ".", "i", "o">> >>

StoredItem(k) ==
    HistoryItem(StoredDomains[((k - 1) \div Len(RECORD_TYPES)) + 1],
                RECORD_TYPES[((k - 1) % Len(RECORD_TYPES)) + 1], k)

StoredHistory(n) == [i \in 1..n |-> StoredItem(n + 1 - i)]

\* The sizes of the stored list: none, one below the cap, the cap
StoredSizes == {0, HistoryCap - 1, HistoryCap}

\* The values Math.random() returns: 0, 0.5, values of three, six and
\* seven digits, and one with the eleven digits of a full double
RandomValues ==
    { <<>>, <<18>>, <<10, 11, 12>>, <<1, 2, 3, 4, 5, 6>>,
      <<35, 0, 35, 0, 35, 0, 35>>, <<4, 15, 35, 34, 24, 8, 2, 22, 31, 34, 27>> }

\* The bodies a resolver answers a propagation check with: null, no Answer,
\* an empty Answer, one address, a null element, an element without data,
\* and an Answer that is a string
PropagationBodies ==
    { JNull, Body(3), BodyWith(0, JArray(<<>>)),
      BodyWith(0, JArray(<<Element(1, Data("A", 1))>>)),
      BodyWith(0, JArray(<<JNull>>)),
      BodyWith(0, JArray(<<ElementNoData(1)>>)),
      BodyWith(0, JString(<<"none">>)) }

\* What is typed into the IP field: nothing, a blank, three and five groups,
\* an address with blanks around it, one with a group above 255, one with a
\* group of four digits, a full and a compressed IPv6 address
IpInputs ==
    { <<>>, <<" ">>,
      <<"1", ".", "2", ".", "3">>,
      <<"1", ".", "2", ".", "3", ".", "4", ".", "5">>,
      <<" ", "8", ".", "8", ".", "8", ".", "8", " ">>,
      <<"9", "9", "9", ".", "1", ".", "1", ".", "1">>,
      <<"1", "2", "3", "4", ".", "1", ".", "1", ".", "1">>,
      <<"a", ":", "B", ":", "3", ":", "4", ":", "5", ":", "6", ":", "7", ":", "f", "f", "f", "f">>,
      <<":", ":", "1">> }

\* A success body with the fields the request names and no other
IpRequestedFields ==
    [t |-> "object", status |-> "success", message |-> <<>>, country |-> <<"US">>,
     countryCode |-> <<"US">>, region |-> <<"CA">>, regionName |-> <<"California">>,
     city |-> <<"Mountain View">>, isp |-> <<"Google LLC">>, org |-> <<"Google">>,
     as |-> <<"AS15169">>, lat |-> 37, lon |-> -122, timezone |-> <<"America/Los_Angeles">>,
     mobile |-> FALSE, proxy |-> FALSE, hosting |-> TRUE]

\* The bodies the IP service answers with: null, a failure, a success with
\* some of the requested fields, one that has a query field as well, and
\* one with all the requested fields
IpBodies(ip) ==
    { JNull,
      [t |-> "object", status |-> "fail", message |-> <<"invalid query">>],
      [t |-> "object", status |-> "success", country |-> <<"US">>, as |-> <<"AS15169">>],
      [t |-> "object", status |-> "success", country |-> <<"US">>, as |-> <<"AS15169">>,
       query |-> ip],
      IpRequestedFields }

FetchReject == [kind |-> "reject", error |-> TypeError("Failed to fetch")]

JsonReject == [kind |-> "reject", error |-> <<"SyntaxError: ", "Unexpected token <">>]

Response(status) == [kind |-> "response", status |-> status]

\* How the fetch of a call of the running operation may settle.  A direct
\* call meets every behaviour at every server.  The five concurrent calls of
\* a batch meet a first server that fails or answers and a last server that
\* is unreachable, which keeps their product small: every result of a call
\* (records, NXDOMAIN, all servers failed) still occurs in every combination.
FetchOutcomes(kind, server) ==
    IF kind = "lookup"
    THEN {FetchReject, Response(200), Response(204), Response(404), Response(500)}
    ELSE IF server < Len(DNS_OVER_HTTPS_SERVERS) THEN {FetchReject, Response(200)}
    ELSE {FetchReject}

\* How response.json() of a call of the running operation may settle
JsonOutcomes(kind, recordType) ==
    IF kind = "lookup"
    THEN {JsonReject} \cup {[kind |-> "data", data |-> b] : b \in LookupBodies}
    ELSE IF kind = "dns"
    THEN {[kind |-> "data", data |-> BodyWith(0, JArray(ToolAnswer(recordType)))],
          [kind |-> "data", data |-> Body(3)]}
    ELSE {[kind |-> "data", data |-> BodyWith(0, JArray(a))] : a \in Answers(recordType)}
         \cup {[kind |-> "data", data |-> Body(3)]}

----------------------------------------------------------------------------
(* The state machine *)

Init ==
    /\ calls = <<>>
    /\ op = [kind |-> "none", pc |-> "idle"]
    /\ ui = [loading |-> FALSE]
    /\ history = <<>>
    /\ storage = JNull
    /\ lookups = <<>>
    /\ now = SessionStart

AllReturned(cs) == \A c \in 1..Len(cs) : cs[c].pc = "returned"

SomeThrew(cs) == \E c \in 1..Len(cs) : cs[c].pc = "threw"

Results(cs) == [c \in 1..Len(cs) |-> cs[c].result]

\* A caller that is never resumed
OpAfterNeverResumed(o, cs) == o

\* What the awaiting caller does once its promise settles: o is the
\* operation, cs the calls after the step.  Promise.all rejects as soon as
\* one of its promises rejects and fulfils when all have fulfilled.
OpAfter(o, cs) ==
    IF o.pc # "waiting" THEN o
    ELSE IF SomeThrew(cs) THEN [o EXCEPT !.pc = "threw"]
    ELSE IF ~AllReturned(cs) THEN o
    ELSE CASE o.kind = "lookup" ->
                [kind |-> "lookup", pc |-> "returned", domain |-> o.domain,
                 recordType |-> o.recordType, result |-> cs[1].result]
           [] o.kind = "analyze" ->
                LET r == AnalyzeResults(o.domain, Results(cs)) IN
                IF r.kind = "throw" THEN [o EXCEPT !.pc = "threw"]
                ELSE [kind |-> "analyze", pc |-> "returned", domain |-> o.domain,
                      result |-> r.result]
           [] o.kind = "graph" ->
                [kind |-> "graph", pc |-> "returned", domain |-> o.domain,
                 result |-> BuildGraph(o.domain, Results(cs))]

FailureText(kind) ==
    IF kind = "analyze" THEN <<"Failed to analyze attack surface">>
    ELSE <<"Failed to analyze infrastructure">>

\* The rest of a tool's handleAnalyze after its await: setResult or
\* setGraphData, the catch block, and finally setLoading(false); the
\* attack-surface tool then renders the issues of its result.
UiAfter(u, before, after) ==
    IF before.pc # "waiting" \/ after.pc = "waiting" \/ after.kind = "lookup" THEN u
    ELSE IF after.pc = "returned" THEN
        IF after.kind = "analyze"
        THEN [loading |-> FALSE, result |-> RenderIssues(after.result).result,
              shown |-> RenderIssues(after.result).shown]
        ELSE [loading |-> FALSE, result |-> after.result]
    ELSE [loading |-> FALSE, error |-> FailureText(after.kind)]

\* A setError that drops the result
SetErrorOnly(u, message) == [loading |-> u.loading, error |-> message]

\* setError(message): the other state of the tool stays
SetError(u, message) ==
    [f \in DOMAIN u \cup {"error"} |-> IF f = "error" THEN message ELSE u[f]]

\* A tool's handleAnalyze up to its await, for the domain field holding
\* `input`; types are the record types of its five lookups.
HandleAnalyze(kind, types, input) ==
    /\ op.pc # "waiting"
    /\ op.kind \in {"none", kind}
    /\ IF Trim(input) = <<>> THEN
            /\ ui' = SetError(ui, <<"Please enter a domain">>)
            /\ UNCHANGED <<calls, op>>
       ELSE LET cleanDomain == ToLowerCase(Trim(input)) IN
            IF ~isValidDomain(cleanDomain) THEN
                /\ ui' = SetError(ui, <<"Please enter a valid domain (e.g., example.com)">>)
                /\ UNCHANGED <<calls, op>>
            ELSE
                /\ ui' = [loading |-> TRUE]
                /\ op' = [kind |-> kind, pc |-> "waiting", domain |-> cleanDomain]
                /\ calls' = [k \in 1..Len(types) |-> NewCall(cleanDomain, types[k])]
    /\ UNCHANGED dnsVars

\* AttackSurfaceTool.handleAnalyze, with analyzeAttackSurface up to its await
AttackSurfaceAnalyze == \E input \in Inputs : HandleAnalyze("analyze", AnalyzeTypes, input)

\* InfrastructureGraph.handleAnalyze up to its await
GraphAnalyze == \E input \in GraphInputs : HandleAnalyze("graph", GraphTypes, input)

\* A caller invokes lookupDNS(domain, recordType) and awaits it
CallLookup ==
    /\ op.pc # "waiting"
    /\ op.kind \in {"none", "lookup"}
    /\ \E domain \in LookupDomains, recordType \in LookupTypes :
        /\ calls' = <<NewCall(domain, recordType)>>
        /\ op' = [kind |-> "lookup", pc |-> "waiting", domain |-> domain,
                  recordType |-> recordType]
    /\ UNCHANGED <<ui, dnsVars>>

\* The calls become cs and the caller goes on.  The bound variables hold
\* the values, each computed once.
Step(cs) ==
    \E after \in {cs} :
        \E o \in {OpAfter(op, after)} :
            /\ calls' = after
            /\ op' = o
            /\ ui' = UiAfter(ui, op, o)
            /\ UNCHANGED dnsVars

\* The fetch of call c settles
FetchSettle ==
    \E c \in 1..Len(calls) :
        /\ calls[c].pc = "fetch"
        /\ \E outcome \in FetchOutcomes(op.kind, calls[c].server) :
              Step([calls EXCEPT ![c] = FetchStep(calls[c], outcome)])

\* response.json() of call c settles
JsonSettle ==
    \E c \in 1..Len(calls) :
        /\ calls[c].pc = "json"
        /\ \E outcome \in JsonOutcomes(op.kind, calls[c].recordType) :
              Step([calls EXCEPT ![c] = JsonStep(calls[c], outcome)])

NextLookup == CallLookup \/ FetchSettle \/ JsonSettle

NextAnalyze == AttackSurfaceAnalyze \/ FetchSettle \/ JsonSettle

NextBatch == AttackSurfaceAnalyze \/ GraphAnalyze \/ FetchSettle \/ JsonSettle

\* One direct call of lookupDNS at a time
SpecLookup == Init /\ [][NextLookup]_vars

\* The attack-surface tool
SpecAnalyze == Init /\ [][NextAnalyze]_vars

\* The attack-surface tool or the infrastructure graph
SpecBatch == Init /\ [][NextBatch]_vars

NextGraph == GraphAnalyze \/ FetchSettle \/ JsonSettle

\* How response.json() of a call settles where termination is studied: a
\* direct call meets every body, a call of a batch an answer section
\* without records (its fetch settles as in every batch)
SettlingJsonOutcomes(kind, recordType) ==
    IF kind = "lookup" THEN JsonOutcomes(kind, recordType)
    ELSE {[kind |-> "data",
           data |-> BodyWith(0, JArray(<<>>))]}

\* response.json() of call c settles
SettlingJsonSettle ==
    \E c \in 1..Len(calls) :
        /\ calls[c].pc = "json"
        /\ \E outcome \in SettlingJsonOutcomes(op.kind, calls[c].recordType) :
              Step([calls EXCEPT ![c] = JsonStep(calls[c], outcome)])

NextSettling ==
    CallLookup \/ AttackSurfaceAnalyze \/ GraphAnalyze \/ FetchSettle \/ SettlingJsonSettle

\* Direct lookups, the attack-surface tool and the infrastructure graph,
\* with every request settling: an outstanding fetch and an outstanding
\* response.json() are settled sooner or later.
SpecSettling ==
    Init /\ [][NextSettling]_vars /\ WF_vars(FetchSettle) /\ WF_vars(SettlingJsonSettle)

\* The infrastructure graph
SpecGraph == Init /\ [][NextGraph]_vars

----------------------------------------------------------------------------
(* The state machine of the DNS lookup tool *)

\* The tool mounts with the item an earlier session left, and its effect
\* loads the history from it.
InitTool ==
    /\ calls = <<>>
    /\ op = [kind |-> "none", pc |-> "idle"]
    /\ ui = [loading |-> FALSE]
    /\ \E n \in StoredSizes :
          storage = IF n = 0 THEN JNull ELSE JsonStringify(StoredHistory(n))
    /\ history = LoadHistory(storage)
    /\ lookups = <<>>
    /\ now = SessionStart

\* Whether the page shows the tool `kind`: it is the tool in use, or no
\* tool has been used yet
Mounted(kind) == op.kind = kind \/ (op.kind = "none" /\ ui = [loading |-> FALSE])

\* The activations of handleLookup that wait for their lookupDNS call
LiveLookups == SelectSeq(lookups, LAMBDA l : l.pc = "waiting")

\* handleLookup up to its await: the activation keeps the history that the
\* saveHistory of its render captured.
NewLookup(domain, recordType) ==
    [domain |-> domain, recordType |-> recordType, history |-> history,
     call |-> NewCall(domain, recordType), pc |-> "waiting"]

\* setResult(lookupResult) ... finally setLoading(false)
ShowResult(u, result) ==
    [f \in DOMAIN u \cup {"result"} |->
        IF f = "result" THEN result ELSE IF f = "loading" THEN FALSE ELSE u[f]]

\* DNSLookupTool.handleLookup up to its await, for the domain field holding
\* `input` and the selected record type
DnsHandleLookup(input, recordType) ==
    /\ Mounted("dns")
    /\ op' = [kind |-> "dns", pc |-> "idle"]
    /\ IF Trim(input) = <<>> THEN
            /\ ui' = SetError(ui, <<"Please enter a domain">>)
            /\ UNCHANGED <<calls, dnsVars>>
       ELSE LET cleanDomain == ToLowerCase(Trim(input)) IN
            IF ~isValidDomain(cleanDomain) THEN
                /\ ui' = SetError(ui, <<"Please enter a valid domain (e.g., example.com)">>)
                /\ UNCHANGED <<calls, dnsVars>>
            ELSE
                /\ Len(LiveLookups) < MaxInFlight
                /\ now + Len(LiveLookups) < SessionStart + MaxSaves
                /\ ui' = [loading |-> TRUE]
                /\ lookups' = Append(LiveLookups, NewLookup(cleanDomain, recordType))
                /\ UNCHANGED <<calls, history, storage, now>>

\* The Lookup button, disabled while loading
ClickLookup ==
    /\ ~ui.loading
    /\ \E input \in ToolInputs, recordType \in ToolTypes :
          DnsHandleLookup(input, recordType)

\* handleKeyPress: Ctrl+Enter in the domain field
KeyLookup ==
    \E input \in ToolInputs, recordType \in ToolTypes :
        DnsHandleLookup(input, recordType)

\* The rest of handleLookup once the settled promise has taken the
\* lookupDNS call of activation i to `call`
LookupStep(i, call) ==
    /\ UNCHANGED <<calls, op>>
    /\ IF call.pc \in {"fetch", "json"} THEN
            /\ lookups' = [lookups EXCEPT ![i].call = call]
            /\ UNCHANGED <<ui, history, storage, now>>
       ELSE IF call.pc = "threw" THEN
            /\ lookups' = [lookups EXCEPT ![i].call = call, ![i].pc = "done"]
            /\ ui' = SetError([ui EXCEPT !.loading = FALSE],
                               <<"Failed to lookup DNS records">>)
            /\ UNCHANGED <<history, storage, now>>
       ELSE
            /\ lookups' = [lookups EXCEPT ![i].call = call, ![i].pc = "done"]
            /\ ui' = ShowResult(ui, call.result)
            /\ IF SaveAllowed(call.result) THEN
                    LET item == HistoryItem(lookups[i].domain, lookups[i].recordType,
                                            now + 1)
                        updated == SaveHistory(lookups[i].history, item)
                    IN  /\ now' = now + 1
                        /\ history' = updated
                        /\ storage' = JsonStringify(updated)
               ELSE UNCHANGED <<history, storage, now>>

\* The fetch of the lookupDNS call of activation i settles
LookupFetchSettle ==
    \E i \in 1..Len(lookups) :
        /\ lookups[i].pc = "waiting"
        /\ lookups[i].call.pc = "fetch"
        /\ \E outcome \in FetchOutcomes("dns", lookups[i].call.server) :
              LookupStep(i, FetchStep(lookups[i].call, outcome))

\* response.json() of the lookupDNS call of activation i settles
LookupJsonSettle ==
    \E i \in 1..Len(lookups) :
        /\ lookups[i].pc = "waiting"
        /\ lookups[i].call.pc = "json"
        /\ \E outcome \in JsonOutcomes("dns", lookups[i].recordType) :
              LookupStep(i, JsonStep(lookups[i].call, outcome))

\* clearHistory: the button is shown while the history is not empty
ClearHistory ==
    /\ Mounted("dns")
    /\ history # <<>>
    /\ history' = <<>>
    /\ storage' = JNull
    /\ op' = [kind |-> "dns", pc |-> "idle"]
    /\ UNCHANGED <<calls, ui, lookups, now>>

NextHistory == ClickLookup \/ LookupFetchSettle \/ LookupJsonSettle

NextConcurrent == ClickLookup \/ KeyLookup \/ LookupFetchSettle \/ LookupJsonSettle

NextDnsTool ==
    ClickLookup \/ KeyLookup \/ LookupFetchSettle \/ LookupJsonSettle \/ ClearHistory

\* The DNS lookup tool used through its button: one lookup after another
SpecHistory == InitTool /\ [][NextHistory]_vars

\* The DNS lookup tool with lookups submitted while others are in flight
SpecConcurrent == InitTool /\ [][NextConcurrent]_vars

\* The same with clearHistory
SpecDnsTool == InitTool /\ [][NextDnsTool]_vars

----------------------------------------------------------------------------
(* The state machine of the subdomain test tool *)

\* setTestSubdomain(subdomain); setError(null)
ShowSubdomain(u, subdomain) ==
    [f \in (DOMAIN u \cup {"testSubdomain"}) \ {"error"} |->
        IF f = "testSubdomain" THEN subdomain ELSE u[f]]

\* SubdomainTestTool.handleGenerate, for the field holding `input` and
\* Math.random() returning `random`
HandleGenerate ==
    /\ Mounted("subdomain")
    /\ op' = IF op.kind = "none" THEN [kind |-> "subdomain", pc |-> "idle"] ELSE op
    /\ \E input \in Inputs, random \in RandomValues :
          IF Trim(input) = <<>> THEN
              ui' = SetError(ui, <<"Please enter a base domain">>)
          ELSE LET cleanDomain == ToLowerCase(Trim(input)) IN
               IF ~isValidDomain(cleanDomain) THEN
                   ui' = SetError(ui, <<"Please enter a valid domain (e.g., example.com)">>)
               ELSE ui' = ShowSubdomain(ui, generateTestSubdomain(cleanDomain, random))
    /\ UNCHANGED <<calls, dnsVars>>

\* What the tool shows while and after a check: setResults([...newResults]),
\* and setLoading(false) after the loop
ShowCheck(u, check) ==
    [f \in DOMAIN u \cup {"results"} |->
        IF f = "results" THEN check.newResults
        ELSE IF f = "loading" THEN check.pc # "done"
        ELSE u[f]]

\* handleCheckPropagation up to its first await.  The button shows once a
\* subdomain was generated and is disabled while loading.
CheckPropagation ==
    /\ op.kind = "subdomain"
    /\ "testSubdomain" \in DOMAIN ui
    /\ ~ui.loading
    /\ op' = StartCheck(ui.testSubdomain)
    /\ ui' = ShowCheck(ui, op')
    /\ UNCHANGED <<calls, dnsVars>>

\* The fetch of the current server settles
PropagationFetchSettle ==
    /\ op.kind = "subdomain"
    /\ op.pc = "fetch"
    /\ \E outcome \in {FetchReject, Response(200), Response(500)} :
          /\ op' = PropagationFetchStep(op, outcome)
          /\ ui' = ShowCheck(ui, op')
    /\ UNCHANGED <<calls, dnsVars>>

\* response.json() of the current server settles
PropagationJsonSettle ==
    /\ op.kind = "subdomain"
    /\ op.pc = "json"
    /\ \E outcome \in {JsonReject} \cup {[kind |-> "data", data |-> b] : b \in PropagationBodies} :
          /\ op' = PropagationJsonStep(op, outcome)
          /\ ui' = ShowCheck(ui, op')
    /\ UNCHANGED <<calls, dnsVars>>

NextSubdomain ==
    HandleGenerate \/ CheckPropagation \/ PropagationFetchSettle \/ PropagationJsonSettle

\* The subdomain test tool
SpecSubdomain == Init /\ [][NextSubdomain]_vars

----------------------------------------------------------------------------
(* The state machine of the IP intelligence tool *)

\* IPIntelligenceTool.handleLookup up to the await inside getIPIntelligence,
\* for the field holding `input`.  The model follows one lookup at a time.
IpHandleLookup ==
    /\ Mounted("ip")
    /\ \E input \in IpInputs :
          IF Trim(input) = <<>> THEN
              /\ ui' = SetError(ui, <<"Please enter an IP address">>)
              /\ op' = IF op.kind = "none" THEN [kind |-> "ip", pc |-> "idle"] ELSE op
          ELSE LET cleanIP == Trim(input) IN
               IF ~isValidIP(cleanIP) THEN
                   /\ ui' = SetError(ui, <<"Please enter a valid IP address">>)
                   /\ op' = IF op.kind = "none" THEN [kind |-> "ip", pc |-> "idle"] ELSE op
               ELSE
                   /\ op.pc \notin {"fetch", "json"}
                   /\ ui' = [loading |-> TRUE]
                   /\ op' = NewIpCall(cleanIP)
    /\ UNCHANGED <<calls, dnsVars>>

\* The rest of handleLookup once getIPIntelligence has returned `data`:
\* setResult(data) or setError(...), and finally setLoading(false).
\* getIPIntelligence catches what it throws, so the catch block of
\* handleLookup never runs.  The operation keeps the address it queried
\* and `answer`, the settlement that ended its request.
IpReturn(answer, data) ==
    /\ op' = [kind |-> "ip", pc |-> "idle", ip |-> op.ip, answer |-> answer]
    /\ ui' = IF data.t = "null"
             THEN SetError([ui EXCEPT !.loading = FALSE],
                           <<"Failed to fetch IP intelligence data">>)
             ELSE ShowResult(ui, data)

\* The fetch of getIPIntelligence settles: a rejection and a response that
\* is not ok are thrown into its catch block, which returns null
IpFetchSettle ==
    /\ op.kind = "ip"
    /\ op.pc = "fetch"
    /\ \E outcome \in {FetchReject, Response(200), Response(429)} :
          IF outcome.kind = "reject" \/ ~ResponseOk(outcome.status)
          THEN IpReturn(outcome, JNull)
          ELSE op' = [op EXCEPT !.pc = "json"] /\ UNCHANGED ui
    /\ UNCHANGED <<calls, dnsVars>>

\* response.json() of getIPIntelligence settles
IpJsonSettle ==
    /\ op.kind = "ip"
    /\ op.pc = "json"
    /\ \E outcome \in {JsonReject} \cup {[kind |-> "data", data |-> b] : b \in IpBodies(op.ip)} :
          IF outcome.kind = "reject" THEN IpReturn(outcome, JNull)
          ELSE IpReturn(outcome, IpInterpret(outcome.data))
    /\ UNCHANGED <<calls, dnsVars>>

NextTools ==
    \/ AttackSurfaceAnalyze \/ GraphAnalyze \/ FetchSettle \/ JsonSettle
    \/ ClickLookup \/ KeyLookup \/ LookupFetchSettle \/ LookupJsonSettle
    \/ HandleGenerate
    \/ IpHandleLookup \/ IpFetchSettle \/ IpJsonSettle

\* The five tools of the page, each used from its mount
SpecTools == Init /\ [][NextTools]_vars

----------------------------------------------------------------------------
(* Properties of lookupDNS *)

InFlight(call) == call.pc \in {"fetch", "json"}

LastSent(call) == call.sent[Len(call.sent)].server

\* A parsed body that is a usable success: Status 0 and an Answer array
\* whose elements are objects, those of type 15 with a data string.
UsableSuccess(data) ==
    /\ data.t = "object"
    /\ "Status" \in DOMAIN data /\ data.Status = 0
    /\ "Answer" \in DOMAIN data /\ data.Answer.t = "array"
    /\ \A i \in 1..Len(data.Answer.items) :
          /\ data.Answer.items[i].t = "object"
          /\ data.Answer.items[i].type = 15 => "data" \in DOMAIN data.Answer.items[i]

\* A parsed body with Status 3
IsNxdomain(data) == data.t = "object" /\ "Status" \in DOMAIN data /\ data.Status = 3

\* The server a per-endpoint error message names: 0 when it names none
ServerOfMessage(message) ==
    IF \E i \in 1..Len(DNS_OVER_HTTPS_SERVERS) :
          StartsWith(message, <<"Server ">> \o DNS_OVER_HTTPS_SERVERS[i])
    THEN CHOOSE i \in 1..Len(DNS_OVER_HTTPS_SERVERS) :
          StartsWith(message, <<"Server ">> \o DNS_OVER_HTTPS_SERVERS[i])
    ELSE 0

\* C3: within one lookupDNS call the servers are requested in list order,
\* each at most once (the j-th request goes to the j-th server, with the
\* call's own parameters), at most one attempt is unfinished at any moment
\* and it is the one requested last (so a server is requested only after
\* the attempt on the one before it has finished), and once a server has
\* given a usable answer the call has returned and that server is the last
\* one requested.
C3_SequentialEndpoints ==
    \A c \in 1..Len(calls) :
        LET call == calls[c] IN
        /\ Len(call.sent) \in 1..Len(DNS_OVER_HTTPS_SERVERS)
        /\ \A j \in 1..Len(call.sent) :
              /\ call.sent[j].server = j
              /\ call.sent[j].url = DNS_OVER_HTTPS_SERVERS[j]
              /\ call.sent[j].params.name = call.domain
        /\ Cardinality(call.pending) <= 1
        /\ call.pending \subseteq {LastSent(call)}
        /\ InFlight(call) <=> call.pending # {}
        /\ call.answeredBy # 0 =>
              call.pc = "returned" /\ call.answeredBy = LastSent(call)
        /\ (call.data # Undefined /\ (UsableSuccess(call.data) \/ IsNxdomain(call.data)))
              => call.pc = "returned" /\ call.answeredBy = LastSent(call)

\* C3 witness: the second server is being requested after the attempt on
\* the first one finished without a usable answer.
C3_Witness ==
    \E c \in 1..Len(calls) :
        /\ calls[c].pc = "fetch"
        /\ Len(calls[c].sent) = 2
        /\ calls[c].pending = {2}
        /\ calls[c].errors # <<>>

\* C4: when a server answers Status 0 with an Answer list, lookupDNS
\* returns one record per Answer element in the same order (type named
\* from the element's code, name, value and ttl copied, priority only for
\* code 15) and the result has no error field, whatever the servers before
\* it did: their error messages are not in the result.  That server is the
\* first one, in list order, that gave a usable answer.
C4_FirstUsableAnswerWins ==
    \A c \in 1..Len(calls) :
        LET call == calls[c] IN
        (call.data # Undefined /\ UsableSuccess(call.data)) =>
            /\ call.pc = "returned"
            /\ call.answeredBy = call.server
            /\ call.answeredBy = Len(call.sent)
            /\ "error" \notin DOMAIN call.result
            /\ DOMAIN call.result = {"domain", "recordType", "records"}
            /\ Len(call.result.records) = Len(call.data.Answer.items)
            /\ \A i \in 1..Len(call.result.records) :
                  LET r == call.result.records[i]
                      a == call.data.Answer.items[i]
                  IN  /\ r.type = typeName(a.type)
                      /\ r.name = a.name
                      /\ r.ttl = a.TTL
                      /\ "data" \in DOMAIN a => r.value = a.data
                      /\ "priority" \in DOMAIN r <=> a.type = 15

\* C4 witness: the first server failed, the second answered Status 0 with
\* one A element, and the call returned that one A record without error.
C4_Witness ==
    \E c \in 1..Len(calls) :
        /\ calls[c].pc = "returned"
        /\ calls[c].answeredBy = 2
        /\ Len(calls[c].errors) = 1
        /\ "error" \notin DOMAIN calls[c].result
        /\ calls[c].result.records =
              <<[type |-> "A", name |-> <<"a.co.">>, value |-> <<"192.0.2.", "1">>,
                 ttl |-> 300]>>

\* C5: when a server answers Status 3, lookupDNS has returned with empty
\* records and an error containing "NXDOMAIN", and the answering server is
\* the last one requested: no later server is contacted, whether or not
\* earlier servers failed.
C5_NxdomainIsTerminal ==
    \A c \in 1..Len(calls) :
        LET call == calls[c] IN
        (call.data # Undefined /\ IsNxdomain(call.data)) =>
            /\ call.pc = "returned"
            /\ call.result.records = <<>>
            /\ "error" \in DOMAIN call.result
            /\ Includes(call.result.error, <<"NXDOMAIN">>)
            /\ call.answeredBy = call.server
            /\ Len(call.sent) = call.server
            /\ call.pending = {}

\* C5 witness: the first server answered Status 3 and the second server was
\* never requested.
C5_Witness ==
    \E c \in 1..Len(calls) :
        /\ calls[c].pc = "returned"
        /\ IsNxdomain(calls[c].data)
        /\ calls[c].answeredBy = 1
        /\ Len(calls[c].sent) = 1

\* C6 (the claim as stated): every attempt that finished without a usable
\* answer left one error message, so the number of messages recorded is the
\* number of such attempts.
C6_EveryFailureRecorded ==
    \A c \in 1..Len(calls) :
        LET call == calls[c]
            finished == Len(call.sent) - Cardinality(call.pending)
            usable == IF call.answeredBy # 0 THEN 1 ELSE 0
        IN  Len(call.errors) = finished - usable

\* C7: when every server has been tried without a usable answer, the
\* result has empty records and its error is "All DNS servers failed: "
\* followed by the recorded per-endpoint messages, in endpoint order,
\* joined by ", ".
C7_AllFailedConcatenatesErrors ==
    \A c \in 1..Len(calls) :
        LET call == calls[c]
            e == call.errors
        IN
        (call.pc = "returned" /\ call.answeredBy = 0) =>
            /\ Len(call.sent) = Len(DNS_OVER_HTTPS_SERVERS)
            /\ call.result.records = <<>>
            /\ "error" \in DOMAIN call.result
            /\ Len(e) <= Len(DNS_OVER_HTTPS_SERVERS)
            /\ \A i, j \in 1..Len(e) :
                  i < j => /\ ServerOfMessage(e[i]) # 0
                           /\ ServerOfMessage(e[i]) < ServerOfMessage(e[j])
            /\ call.result.error =
                  <<"All DNS servers failed: ">> \o
                  (CASE Len(e) = 0 -> <<>>
                     [] Len(e) = 1 -> e[1]
                     [] Len(e) = 2 -> e[1] \o <<", ">> \o e[2]
                     [] OTHER -> e[1] \o <<", ">> \o e[2] \o <<", ">> \o e[3])

\* C7 witness: both servers failed, one by HTTP status and one by a
\* rejected request, and the result carries both messages in order.
C7_Witness ==
    \E c \in 1..Len(calls) :
        /\ calls[c].pc = "returned"
        /\ calls[c].answeredBy = 0
        /\ calls[c].result.error =
              <<"All DNS servers failed: ",
                "Server ", "https://dns.google/resolve", " returned ", "500", ", ",
                "Server ", "https://cloudflare-dns.com/dns-query", " failed: ",
                "TypeError: ", "Failed to fetch">>

\* C8: no behaviour of the servers makes lookupDNS throw; the result it
\* returns has the domain and record type it was called with and a
\* sequence of records, and a result that carries an error has no records.
C8_NeverThrowsWellFormed ==
    \A c \in 1..Len(calls) :
        LET call == calls[c] IN
        /\ call.pc # "threw"
        /\ op.pc # "threw"
        /\ call.pc = "returned" =>
              /\ {"domain", "recordType", "records"} \subseteq DOMAIN call.result
              /\ DOMAIN call.result \subseteq {"domain", "recordType", "records", "error"}
              /\ call.result.domain = op.domain
              /\ call.result.recordType = op.recordType
              /\ DOMAIN call.result.records = 1..Len(call.result.records)
              /\ "error" \in DOMAIN call.result => call.result.records = <<>>
              /\ call.answeredBy = 0 => "error" \in DOMAIN call.result

\* C8 witness: the first server's body was not JSON, the second answered
\* Status 0 with an Answer that is no array, and the call still returned.
C8_Witness ==
    \E c \in 1..Len(calls) :
        /\ calls[c].pc = "returned"
        /\ Len(calls[c].errors) = 2
        /\ Includes(calls[c].errors[1], <<"SyntaxError: ">>)
        /\ Includes(calls[c].errors[2], <<"data.Answer.map is not a function">>)
        /\ op.pc = "returned"

\* The table of the nine record types and their codes
CodeTable ==
    [A |-> 1, NS |-> 2, CNAME |-> 5, SOA |-> 6, PTR |-> 12, MX |-> 15,
     TXT |-> 16, AAAA |-> 28, SRV |-> 33]

\* The name the table gives a code, "UNKNOWN" when it has none
NameOfCode(code) ==
    IF \E T \in DOMAIN CodeTable : CodeTable[T] = code
    THEN CHOOSE T \in DOMAIN CodeTable : CodeTable[T] = code
    ELSE "UNKNOWN"

\* The part of str before its first space, all of it when it has none
FirstToken(str) ==
    LET spaces == {i \in 1..Len(str) : str[i] = " "} IN
    IF spaces = {} THEN str
    ELSE SubSeq(str, 1, (CHOOSE i \in spaces : \A j \in spaces : i <= j) - 1)

RECURSIVE SumUpTo(_, _)
SumUpTo(f, n) == IF n = 0 THEN 0 ELSE f[n] + SumUpTo(f, n - 1)

RECURSIVE Power(_, _)
Power(radix, k) == IF k = 0 THEN 1 ELSE radix * Power(radix, k - 1)

\* The integer a token starts with, in the notation of JavaScript: an
\* optional sign, then the longest run of decimal digits, or of hexadecimal
\* digits after "0x"; NaN when there is no digit
IntegerPrefix(token) ==
    LET signed == Len(token) > 0 /\ token[1] \in {"-", "+"}
        unsigned == IF signed THEN Tail(token) ELSE token
        hex == Len(unsigned) >= 2 /\ unsigned[1] = "0" /\ unsigned[2] \in {"x", "X"}
        body == IF hex THEN SubSeq(unsigned, 3, Len(unsigned)) ELSE unsigned
        digits == IF hex THEN HexChars ELSE Range(Digits)
        radix == IF hex THEN 16 ELSE 10
        n == CHOOSE k \in 0..Len(body) :
                /\ \A i \in 1..k : body[i] \in digits
                /\ k < Len(body) => body[k + 1] \notin digits
        magnitude == SumUpTo([i \in 1..n |-> HexValue(body[i]) * Power(radix, n - i)], n)
    IN  IF n = 0 THEN NaN
        ELSE IF token[1] = "-" THEN Num(0 - magnitude) ELSE Num(magnitude)

\* C21: in every record lookupDNS returns, priority is there exactly when
\* the code of the answer element is 15, whatever record type the call asked
\* for, and it is then the integer at the start of the element's data up to
\* the first space; a record of any other code has no priority.
C21_PriorityOnlyForMx ==
    \A c \in 1..Len(calls) :
        LET call == calls[c] IN
        (call.pc = "returned" /\ call.answeredBy # 0 /\ UsableSuccess(call.data)) =>
            /\ Len(call.result.records) = Len(call.data.Answer.items)
            /\ \A i \in 1..Len(call.result.records) :
                  LET r == call.result.records[i]
                      a == call.data.Answer.items[i]
                  IN  /\ "priority" \in DOMAIN r <=> a.type = 15
                      /\ a.type = 15 => r.priority = IntegerPrefix(FirstToken(a.data))

\* C21 witness: a call that asked for A records returned five MX records:
\* no integer before the first space, a negative one, digits followed by a
\* letter, data without a space, and a hexadecimal integer
C21_Witness ==
    \E c \in 1..Len(calls) :
        /\ calls[c].pc = "returned"
        /\ calls[c].recordType = "A"
        /\ Len(calls[c].result.records) = 5
        /\ calls[c].result.records[1].priority = NaN
        /\ calls[c].result.records[2].priority = Num(0 - 5)
        /\ calls[c].result.records[3].priority = Num(12)
        /\ calls[c].result.records[4].priority = Num(5)
        /\ calls[c].result.records[5].priority = Num(26)

\* C20: the query-side table gives the nine record types the codes A=1,
\* NS=2, CNAME=5, SOA=6, PTR=12, MX=15, TXT=16, AAAA=28, SRV=33 and is
\* injective, the answer-side chain maps the code of each type back to the
\* type and every other code to "UNKNOWN"; so every request carries the
\* code of the requested type, and every returned record is named by the
\* table's inverse of its answer element's code.
C20_TypeNameInvertsTypeCode ==
    /\ DOMAIN CodeTable = RecordTypes
    /\ \A T \in RecordTypes :
          typeCode(T) = CodeTable[T] /\ typeName(typeCode(T)) = T
    /\ \A T, U \in RecordTypes : typeCode(T) = typeCode(U) => T = U
    /\ \A code \in 0..MaxCode :
          (\A T \in RecordTypes : typeCode(T) # code) => typeName(code) = "UNKNOWN"
    /\ \A c \in 1..Len(calls) :
          LET call == calls[c] IN
          /\ \A j \in 1..Len(call.sent) :
                call.sent[j].params.type = ToString(CodeTable[call.recordType])
          /\ (call.pc = "returned" /\ call.answeredBy # 0 /\ UsableSuccess(call.data)) =>
                \A i \in 1..Len(call.result.records) :
                    call.result.records[i].type
                        = NameOfCode(call.data.Answer.items[i].type)

\* C20 witness: a PTR lookup, requested with type 12, was answered with an
\* element of code 33 and returned a record named SRV.
C20_Witness ==
    \E c \in 1..Len(calls) :
        /\ calls[c].pc = "returned"
        /\ calls[c].answeredBy # 0
        /\ Len(calls[c].result.records) = 1
        /\ calls[c].recordType = "PTR"
        /\ calls[c].sent[1].params.type = "12"
        /\ calls[c].data.Answer.items[1].type = 33
        /\ calls[c].result.records[1].type = "SRV"

----------------------------------------------------------------------------
(* Properties of analyzeAttackSurface and of the five-way batches *)

Analyzed == op.kind = "analyze" /\ op.pc = "returned"

\* The records the c-th lookup of the batch returned
RecordsOf(c) == calls[c].result.records

HasSpf(records) ==
    \E i \in 1..Len(records) : StartsWith(records[i].value, <<"v=spf1">>)

HasDmarc(records) ==
    \E i \in 1..Len(records) : StartsWith(records[i].value, <<"v=dmarc1">>)

FirstWith(records, prefix) ==
    CHOOSE i \in 1..Len(records) :
        /\ StartsWith(records[i].value, prefix)
        /\ \A j \in 1..(i - 1) : ~StartsWith(records[j].value, prefix)

\* The rules of the table that fire on the five lookup results
FiredRules ==
    (IF ~HasSpf(RecordsOf(1)) THEN {"spf-missing"}
     ELSE IF ~Includes(RecordsOf(1)[FirstWith(RecordsOf(1), <<"v=spf1">>)].value, <<"v=spf1">>)
          THEN {"spf-invalid"} ELSE {})
    \cup
    (IF ~HasDmarc(RecordsOf(2)) THEN {"dmarc-missing"}
     ELSE IF ~Includes(RecordsOf(2)[FirstWith(RecordsOf(2), <<"v=dmarc1">>)].value, <<"v=dmarc1">>)
          THEN {"dmarc-invalid"} ELSE {})
    \cup (IF Len(RecordsOf(3)) = 0 THEN {"dnssec-missing"} ELSE {})
    \cup (IF Len(RecordsOf(4)) = 0 THEN {"mx-missing"} ELSE {})
    \cup (IF Len(RecordsOf(5)) < 2 THEN {"ns-insufficient"} ELSE {})

RuleDelta(id) ==
    CASE id = "spf-missing" -> 25
      [] id = "spf-invalid" -> 15
      [] id = "dmarc-missing" -> 25
      [] id = "dmarc-invalid" -> 10
      [] id = "dnssec-missing" -> 10
      [] id = "mx-missing" -> 15
      [] id = "ns-insufficient" -> 5

RECURSIVE SumDeltas(_)
SumDeltas(ids) ==
    IF ids = {} THEN 0
    ELSE LET id == CHOOSE x \in ids : TRUE IN RuleDelta(id) + SumDeltas(ids \ {id})

IssueIds(issues) == [i \in 1..Len(issues) |-> issues[i].id]

\* C1: whatever the five lookups returned, riskScore is in 0..100 and is
\* the sum of the deltas of the rules that fired, capped at 100, and issues
\* holds exactly one entry for each rule that fired and no other.
C1_RiskScoreIsSumOfFiredDeltas ==
    Analyzed =>
        /\ op.result.riskScore \in 0..100
        /\ op.result.riskScore = Min(100, SumDeltas(FiredRules))
        /\ Len(op.result.issues) = Cardinality(FiredRules)
        /\ Range(IssueIds(op.result.issues)) = FiredRules

\* C1 witness: DMARC is missing and MX is missing, nothing else fires, and
\* the score is 40.
C1_Witness ==
    /\ Analyzed
    /\ FiredRules = {"dmarc-missing", "mx-missing"}
    /\ op.result.riskScore = 40

AllEmpty == \A c \in 1..Len(calls) : RecordsOf(c) = <<>>

\* C2: when all five lookups returned empty records, riskScore is 80 and
\* the issues are spf-missing, dmarc-missing, dnssec-missing, mx-missing
\* and ns-insufficient, in this order.
C2_AllEmptyGivesEighty ==
    (Analyzed /\ AllEmpty) =>
        /\ op.result.riskScore = 80
        /\ IssueIds(op.result.issues) =
              <<"spf-missing", "dmarc-missing", "dnssec-missing", "mx-missing",
                "ns-insufficient">>

\* C2 witness: every one of the five lookups failed on both servers and the
\* analysis returned.
C2_Witness ==
    /\ Analyzed
    /\ \A c \in 1..Len(calls) :
          calls[c].answeredBy = 0 /\ "error" \in DOMAIN calls[c].result

\* The score the rules other than the SPF rules add
ScoreWithoutSpf == SumDeltas(FiredRules \ {"spf-missing", "spf-invalid"})

\* C10: spf.present is true exactly when some record of the SPF lookup has
\* a value starting with "v=spf1"; then spf.valid is true, spf.record is
\* the first such value, no issue is spf-missing or spf-invalid and the
\* score is what the other rules add.
C10_SpfPresentIffPrefix ==
    Analyzed =>
        LET spf == op.result.checks.spf IN
        /\ spf.present <=> HasSpf(RecordsOf(1))
        /\ spf.present =>
              /\ spf.valid
              /\ spf.record = RecordsOf(1)[FirstWith(RecordsOf(1), <<"v=spf1">>)].value
              /\ Range(IssueIds(op.result.issues)) \cap {"spf-missing", "spf-invalid"} = {}
              /\ op.result.riskScore = ScoreWithoutSpf
        /\ ~spf.present => "record" \notin DOMAIN spf

\* C10 witness: the SPF lookup returned three records, the second and the
\* third starting with "v=spf1", and the check reports the second.
C10_Witness ==
    /\ Analyzed
    /\ Len(RecordsOf(1)) = 3
    /\ op.result.checks.spf.present
    /\ op.result.checks.spf.record = <<"v=spf1", " include:_spf.example.com ~all">>
    /\ op.result.riskScore > 0

\* C22: dmarc.present is true exactly when some record of the second TXT
\* lookup has a value starting with "v=dmarc1" in lower case, whatever the
\* first TXT lookup returned; when it is false the issue dmarc-missing is
\* there and 25 are in the score.
C22_DmarcPresentIffPrefix ==
    Analyzed =>
        LET dmarc == op.result.checks.dmarc
            others == SumDeltas(FiredRules \ {"dmarc-missing", "dmarc-invalid"})
        IN
        /\ dmarc.present <=> HasDmarc(RecordsOf(2))
        /\ ~dmarc.present =>
              /\ "dmarc-missing" \in Range(IssueIds(op.result.issues))
              /\ op.result.riskScore = 25 + others
              /\ "record" \notin DOMAIN dmarc
        /\ dmarc.present =>
              /\ Range(IssueIds(op.result.issues)) \cap {"dmarc-missing", "dmarc-invalid"} = {}
              /\ op.result.riskScore = others
              /\ dmarc.record = RecordsOf(2)[FirstWith(RecordsOf(2), <<"v=dmarc1">>)].value

\* C22 witness: the first TXT lookup returned a record starting with
\* "v=dmarc1", the second one only records that do not (one of them spells
\* the prefix in upper case), and dmarc-missing is there.
C22_Witness ==
    /\ Analyzed
    /\ HasDmarc(RecordsOf(1))
    /\ \E i \in 1..Len(RecordsOf(2)) : StartsWith(RecordsOf(2)[i].value, <<"v=DMARC1">>)
    /\ ~op.result.checks.dmarc.present
    /\ "dmarc-missing" \in Range(IssueIds(op.result.issues))

\* The score of the rules that fire, none of them being an invalid rule
MissingRules ==
    {"spf-missing", "dmarc-missing", "dnssec-missing", "mx-missing", "ns-insufficient"}

\* C23: in every result valid equals present for SPF and for DMARC, no
\* issue is spf-invalid or dmarc-invalid, and the score holds neither the
\* 15 nor the 10 of these rules.
C23_ValidEqualsPresent ==
    Analyzed =>
        /\ op.result.checks.spf.valid = op.result.checks.spf.present
        /\ op.result.checks.dmarc.valid = op.result.checks.dmarc.present
        /\ Range(IssueIds(op.result.issues)) \cap {"spf-invalid", "dmarc-invalid"} = {}
        /\ op.result.riskScore =
              SumDeltas(Range(IssueIds(op.result.issues)) \cap MissingRules)

\* C23 witness: an SPF and a DMARC record were found, both with text after
\* the prefix, and both checks are valid.
C23_Witness ==
    /\ Analyzed
    /\ op.result.checks.spf.present /\ op.result.checks.spf.valid
    /\ op.result.checks.dmarc.present /\ op.result.checks.dmarc.valid
    /\ op.result.checks.spf.record # <<"v=spf1">>
    /\ op.result.checks.dmarc.record # <<"v=dmarc1">>

\* C24: ns-insufficient is there exactly when the NS lookup returned fewer
\* than 2 records and then adds 5; ns.present is true exactly when it
\* returned at least one, so with one record ns.present is true and the
\* issue is there all the same.
C24_NsInsufficientBelowTwo ==
    Analyzed =>
        LET ids == Range(IssueIds(op.result.issues)) IN
        /\ "ns-insufficient" \in ids <=> Len(RecordsOf(5)) < 2
        /\ op.result.checks.ns.present <=> Len(RecordsOf(5)) >= 1
        /\ op.result.riskScore =
              SumDeltas(FiredRules \ {"ns-insufficient"})
              + (IF Len(RecordsOf(5)) < 2 THEN 5 ELSE 0)
        /\ Len(RecordsOf(5)) = 1 =>
              op.result.checks.ns.present /\ "ns-insufficient" \in ids
        /\ Len(RecordsOf(5)) = 0 =>
              ~op.result.checks.ns.present /\ "ns-insufficient" \in ids

\* C24 witness: the NS lookup returned one record; ns.present is true and
\* ns-insufficient is the last issue.
C24_Witness ==
    /\ Analyzed
    /\ Len(RecordsOf(5)) = 1
    /\ op.result.checks.ns.present
    /\ Len(op.result.issues) > 0
    /\ op.result.issues[Len(op.result.issues)].id = "ns-insufficient"

\* C24 second witness: the NS lookup returned two records and the issue is
\* not there.
C24_WitnessTwo ==
    /\ Analyzed
    /\ Len(RecordsOf(5)) = 2
    /\ "ns-insufficient" \notin Range(IssueIds(op.result.issues))

\* The rules in the order analyzeAttackSurface tests them
RuleOrder ==
    <<"spf-missing", "spf-invalid", "dmarc-missing", "dmarc-invalid", "dnssec-missing",
      "mx-missing", "ns-insufficient">>

PlaceOf(id) == CHOOSE i \in 1..Len(RuleOrder) : RuleOrder[i] = id

SeverityRank(issue) ==
    CASE issue.severity = "critical" -> 0
      [] issue.severity = "high" -> 1
      [] issue.severity = "medium" -> 2
      [] issue.severity = "low" -> 3

\* C25: the issues of a result are in the order SPF, DMARC, DNSSEC, MX, NS
\* (a subsequence of the rule order) whatever order the five lookups
\* completed in; the page shows them sorted by severity, rules of equal
\* severity in their order, and the result the tool holds keeps its issues
\* as analyzeAttackSurface returned them.
C25_IssuesInRuleOrder ==
    Analyzed =>
        LET issues == op.result.issues IN
        /\ \A i \in 1..Len(issues) : issues[i].id \in Range(RuleOrder)
        /\ \A i, j \in 1..Len(issues) : i < j => PlaceOf(issues[i].id) < PlaceOf(issues[j].id)
        /\ "result" \in DOMAIN ui /\ ui.result = op.result
        /\ Len(ui.shown) = Len(issues)
        /\ Range(ui.shown) = Range(issues)
        /\ \A i, j \in 1..Len(ui.shown) :
              i < j =>
                 \/ SeverityRank(ui.shown[i]) < SeverityRank(ui.shown[j])
                 \/ /\ SeverityRank(ui.shown[i]) = SeverityRank(ui.shown[j])
                    /\ PlaceOf(ui.shown[i].id) < PlaceOf(ui.shown[j].id)

\* C25 witness: dmarc-missing, dnssec-missing and mx-missing fired; the page
\* shows mx-missing before dnssec-missing and the result keeps them in the
\* order of the rules.
C25_Witness ==
    /\ Analyzed
    /\ IssueIds(ui.result.issues) = <<"dmarc-missing", "dnssec-missing", "mx-missing">>
    /\ IssueIds(ui.shown) = <<"dmarc-missing", "mx-missing", "dnssec-missing">>

\* C27: riskScore is a multiple of 5 between 0 and 80 and is the sum of the
\* deltas of the rules that fired as it is: the clamp to 100 never lowers it.
C27_ScoreAtMostEighty ==
    Analyzed =>
        /\ op.result.riskScore \in {5 * k : k \in 0..16}
        /\ SumDeltas(FiredRules) <= 80
        /\ op.result.riskScore = SumDeltas(FiredRules)

\* C27 witness: all five rules fired on lookups that were answered, not
\* failed, and the score is 80.
C27_Witness ==
    /\ Analyzed
    /\ Cardinality(FiredRules) = 5
    /\ op.result.riskScore = 80
    /\ \A c \in 1..Len(calls) : calls[c].answeredBy # 0

Batch == op.kind \in {"analyze", "graph"}

Failed(c) == calls[c].pc = "returned" /\ "error" \in DOMAIN calls[c].result

NodesOfType(nodes, type) == {i \in 1..Len(nodes) : nodes[i].type = type}

\* C9: a batch starts its five lookups together (while it waits, each of
\* the five has issued its first request), it never throws, it has a
\* result only when all five lookups have returned, and each check reads
\* the records of its own lookup only: a lookup that failed has empty
\* records and makes its own check absent (no node of its relation in the
\* graph), and the other checks are what their own lookups returned.
C9_BatchJoinsAllFive ==
    Batch =>
        /\ Len(calls) = 5
        /\ \A c \in 1..5 : Len(calls[c].sent) >= 1 /\ calls[c].pc # "threw"
        /\ op.pc \in {"waiting", "returned"}
        /\ op.pc = "returned" <=> \A c \in 1..5 : calls[c].pc = "returned"
        /\ ui.loading <=> op.pc = "waiting"
        /\ "error" \in DOMAIN ui =>
              ui.error \notin {<<"Failed to analyze attack surface">>,
                               <<"Failed to analyze infrastructure">>}
        /\ \A c \in 1..5 : Failed(c) => RecordsOf(c) = <<>>
        /\ (op.pc = "returned" /\ op.kind = "analyze") =>
              LET chk == op.result.checks IN
              /\ chk.spf.present <=> HasSpf(RecordsOf(1))
              /\ chk.dmarc.present <=> HasDmarc(RecordsOf(2))
              /\ chk.dnssec.present <=> Len(RecordsOf(3)) > 0
              /\ chk.mx.present <=> Len(RecordsOf(4)) > 0
              /\ chk.mx.records = [i \in 1..Len(RecordsOf(4)) |-> RecordsOf(4)[i].value]
              /\ chk.ns.present <=> Len(RecordsOf(5)) > 0
              /\ chk.ns.records = [i \in 1..Len(RecordsOf(5)) |-> RecordsOf(5)[i].value]
        /\ (op.pc = "returned" /\ op.kind = "graph") =>
              /\ \A c \in 1..5 :
                    Cardinality(NodesOfType(op.result.nodes, NodeType(GraphTypes[c])))
                        = Len(RecordsOf(c))

\* C9 witness: a graph build whose A lookup failed on both servers while
\* its NS lookup returned two records; the graph has the root and the two
\* NS nodes.
C9_Witness ==
    /\ op.kind = "graph" /\ op.pc = "returned"
    /\ Failed(1) /\ calls[1].answeredBy = 0
    /\ Len(RecordsOf(4)) = 2
    /\ Len(op.result.nodes) = 3

\* No call has requested more than there are servers, nor a server twice
OneRequestPerEndpoint ==
    \A c \in 1..Len(calls) :
        /\ Len(calls[c].sent) <= Len(DNS_OVER_HTTPS_SERVERS)
        /\ \A i, j \in 1..Len(calls[c].sent) :
              i # j => calls[c].sent[i].server # calls[c].sent[j].server

\* An operation that has returned has its lookups returned, five for a
\* batch; lookups are in flight only while their operation waits, and a
\* tool is loading only while its operation waits.
ReturnedAfterItsLookups ==
    /\ op.pc = "returned" =>
          /\ Len(calls) = IF Batch THEN 5 ELSE 1
          /\ \A c \in 1..Len(calls) : calls[c].pc = "returned"
    /\ (\E c \in 1..Len(calls) : InFlight(calls[c])) => op.pc = "waiting"
    /\ ui.loading => op.pc = "waiting"

\* The operation is over: it has returned, each of its lookups has
\* returned, and no tool is loading
Settled ==
    /\ op.pc = "returned"
    /\ \A c \in 1..Len(calls) : calls[c].pc = "returned"
    /\ ~ui.loading

\* C26: with every request settling, every lookupDNS call returns in the
\* end, after at most one request per endpoint; every direct lookup, every
\* analysis and every graph build returns in the end, after its lookups;
\* and a tool that is loading stops loading in the end.
C26_SettlingOperationsReturn ==
    /\ []OneRequestPerEndpoint
    /\ []ReturnedAfterItsLookups
    /\ (op.pc = "waiting") ~> Settled

\* C26 witness: an analysis has returned and the tool is not loading, after
\* one of its lookups was answered by the first server and another one
\* failed on both.
C26_Witness ==
    /\ Analyzed
    /\ ~ui.loading /\ "result" \in DOMAIN ui
    /\ \E c \in 1..5 : calls[c].answeredBy = 1
    /\ \E c \in 1..5 : calls[c].answeredBy = 0 /\ Len(calls[c].sent) = 2

----------------------------------------------------------------------------
(* Properties of the infrastructure graph *)

Graphed == op.kind = "graph" /\ op.pc = "returned"

\* The step in which the graph build stops waiting for its five lookups
GraphFinishes == op.kind = "graph" /\ op.pc = "waiting" /\ op'.pc # "waiting"

\* The total number of records the lookups cs returned
RECURSIVE TotalRecords(_)
TotalRecords(cs) ==
    IF Len(cs) = 0 THEN 0
    ELSE Len(cs[1].result.records) + TotalRecords(Tail(cs))

LinksTo(graph, id) == {l \in 1..Len(graph.links) : graph.links[l].target = id}

\* C12 (the claim as stated): in every graph the ids of the nodes are
\* pairwise distinct, the root is the only node of type domain, and every
\* other node is the target of exactly one link, which starts at the root.
C12_NodeIdsDistinct ==
    Graphed =>
        LET g == op.result IN
        /\ \A i, j \in 1..Len(g.nodes) : i # j => g.nodes[i].id # g.nodes[j].id
        /\ NodesOfType(g.nodes, "domain") = {1}
        /\ \A k \in 2..Len(g.nodes) :
              /\ Cardinality(LinksTo(g, g.nodes[k].id)) = 1
              /\ \A l \in LinksTo(g, g.nodes[k].id) : g.links[l].source = op.domain

\* The Answer elements the c-th lookup was given, none when it failed
ItemsOf(c) ==
    IF calls[c].data # Undefined /\ UsableSuccess(calls[c].data)
    THEN calls[c].data.Answer.items ELSE <<>>

\* The lower-case prefix the claim gives the c-th relation
PrefixOf(c) == <<"a", "aaaa", "mx", "ns", "cname">>[c]

\* The nodes and the links the answers of relations c..5 stand for
RECURSIVE NodesFor(_)
NodesFor(c) ==
    IF c > 5 THEN <<>>
    ELSE [i \in 1..Len(ItemsOf(c)) |->
             [id |-> <<PrefixOf(c), "-">> \o ItemsOf(c)[i].data, type |-> PrefixOf(c),
              label |-> ItemsOf(c)[i].data, value |-> ItemsOf(c)[i].data]]
         \o NodesFor(c + 1)

RECURSIVE LinkTargetsFor(_)
LinkTargetsFor(c) ==
    IF c > 5 THEN <<>>
    ELSE [i \in 1..Len(ItemsOf(c)) |-> <<PrefixOf(c), "-">> \o ItemsOf(c)[i].data]
         \o LinkTargetsFor(c + 1)

\* C13: the graph is a function of the domain and of the answers the five
\* lookups were given, whatever order they completed in: the nodes are the
\* root, then one node per answer element of the A, AAAA, MX, NS and CNAME
\* lookups in this order and in answer order, and the links follow the
\* same order; so two builds with identical answers give identical
\* sequences.
C13_GraphIsFunctionOfAnswers ==
    Graphed =>
        /\ op.result.nodes =
              <<[id |-> op.domain, type |-> "domain", label |-> op.domain]>>
              \o NodesFor(1)
        /\ [l \in 1..Len(op.result.links) |-> op.result.links[l].target]
              = LinkTargetsFor(1)

\* C13 witness: a build whose A and NS lookups were each given two
\* elements and whose MX lookup one: the second node is the first A
\* record and the last node the second NS record.
C13_Witness ==
    /\ Graphed
    /\ Len(ItemsOf(1)) = 2 /\ Len(ItemsOf(3)) = 1 /\ Len(ItemsOf(4)) = 2
    /\ Len(ItemsOf(2)) = 0 /\ Len(ItemsOf(5)) = 0
    /\ op.result.nodes[2].id = <<"a", "-", "192.0.2.", "1">>
    /\ op.result.nodes[6].id = <<"ns", "-", "ns", "2", ".a.co.">>

----------------------------------------------------------------------------
(* Properties of the history of the DNS lookup tool *)

Pair(h) == <<h.domain, h.recordType>>

Pairs(items) == {Pair(items[i]) : i \in 1..Len(items)}

\* The entries of a list other than the one of pair p, in their order
Without(items, p) == SelectSeq(items, LAMBDA h : Pair(h) # p)

\* Activation i ends in this step with a result without error
Succeeds(i) ==
    /\ i \in 1..Len(lookups) /\ i \in 1..Len(lookups')
    /\ lookups[i].pc = "waiting" /\ lookups'[i].pc = "done"
    /\ lookups'[i].call.pc = "returned"
    /\ "error" \notin DOMAIN lookups'[i].call.result

\* Activation i ends in this step with a result that carries an error
Fails(i) ==
    /\ i \in 1..Len(lookups) /\ i \in 1..Len(lookups')
    /\ lookups[i].pc = "waiting" /\ lookups'[i].pc = "done"
    /\ lookups'[i].call.pc = "returned"
    /\ "error" \in DOMAIN lookups'[i].call.result

\* The list never has more than 20 entries nor two entries of one pair, and
\* it is ordered newest first.
HistoryWellFormed ==
    /\ Len(history) <= 20
    /\ \A i, j \in 1..Len(history) : i # j => Pair(history[i]) # Pair(history[j])
    /\ \A i \in 1..(Len(history) - 1) :
          history[i].timestamp.time > history[i + 1].timestamp.time

\* A successful lookup of a pair puts the pair's single entry first, with a
\* timestamp newer than every other; the other entries keep their order
\* and timestamps, and the oldest leaves when there would be 21.
NewestFirstStep ==
    \A i \in 1..Len(lookups) :
        Succeeds(i) =>
            LET p == <<lookups[i].domain, lookups[i].recordType>>
                others == Without(history, p)
            IN  /\ Len(history') >= 1
                /\ Pair(history'[1]) = p
                /\ \A k \in 1..Len(history) :
                      history'[1].timestamp.time > history[k].timestamp.time
                /\ Tail(history') =
                      IF Len(others) < 20 THEN others ELSE SubSeq(others, 1, 19)

\* C14: with lookups run one after another, the history never has more
\* than 20 entries nor two entries of one (domain, recordType) pair and is
\* ordered newest first; each successful lookup puts its pair first with a
\* new timestamp, moving the pair's entry if it had one, and drops the
\* oldest entry when there would be 21: so it holds the 20 most recently
\* looked-up distinct pairs.
C14_HistoryHoldsNewestTwenty == []HistoryWellFormed /\ [][NewestFirstStep]_vars

\* C14 witness: the stored list had 20 entries, (b.io, A) was looked up and
\* is first, the list still has 20 entries and the oldest pair, (a.co, A),
\* has left it.
C14_Witness ==
    /\ Len(history) = 20
    /\ Pair(history[1]) = <<BIo, "A">>
    /\ <<ACo, "A">> \notin Pairs(history)
    /\ <<ACo, "AAAA">> \in Pairs(history)

\* The pairs of the persisted list
StoredPairs ==
    IF storage.t = "null" THEN {}
    ELSE {<<storage.items[i].domain, storage.items[i].recordType>> :
            i \in 1..Len(storage.items)}

\* C15 (the claim as stated): whenever two lookups of different pairs were
\* in flight together and both returned without error, the history and the
\* persisted list hold an entry for each of the two pairs once both have
\* completed.
C15_NoLostUpdate ==
    \A i, j \in 1..Len(lookups) :
        (/\ i < j
         /\ lookups[i].pc = "done" /\ lookups[j].pc = "done"
         /\ lookups[i].call.pc = "returned" /\ lookups[j].call.pc = "returned"
         /\ "error" \notin DOMAIN lookups[i].call.result
         /\ "error" \notin DOMAIN lookups[j].call.result
         /\ Pair(lookups[i]) # Pair(lookups[j]))
        => /\ {Pair(lookups[i]), Pair(lookups[j])} \subseteq Pairs(history)
           /\ {Pair(lookups[i]), Pair(lookups[j])} \subseteq StoredPairs

\* clearHistory takes this step
Clears == history' = <<>> /\ storage' = JNull /\ lookups' = lookups /\ ui' = ui

\* C16: the history and the persisted item change only in a step in which
\* a lookup returns without error or clearHistory runs; a step in which a
\* lookup returns with an error leaves both as they were.
C16_OnlySuccessAndClearRewrite ==
    [][/\ (history' # history \/ storage' # storage) =>
              (Clears \/ \E i \in 1..Len(lookups) : Succeeds(i))
       /\ (\E i \in 1..Len(lookups) : Fails(i)) =>
              (history' = history /\ storage' = storage)
    ]_vars

\* C29 (the claim as stated): the tool is loading whenever a submitted
\* lookup is in flight, and once every submitted lookup has completed the
\* displayed result is the result of the lookup submitted last.
C29_LatestResultShown ==
    /\ (\E i \in 1..Len(lookups) : lookups[i].pc = "waiting") => ui.loading
    /\ (/\ lookups # <<>>
        /\ \A i \in 1..Len(lookups) : lookups[i].pc = "done"
        /\ lookups[Len(lookups)].call.pc = "returned")
       => /\ "result" \in DOMAIN ui
          /\ ui.result = lookups[Len(lookups)].call.result

\* The history and the persisted item are those clearHistory leaves
Cleared == history = <<>> /\ storage = JNull

\* C28 (the claim as stated): the step that empties the history removes the
\* persisted item, and no entry the clear removed comes back: when a lookup
\* returns without error while the history is cleared, also one that was
\* in flight at the clear, the history and the persisted list hold the
\* entry of its pair and no other.
C28_ClearedEntriesStayCleared ==
    [][/\ (history # <<>> /\ history' = <<>>) => storage' = JNull
       /\ \A i \in 1..Len(lookups) :
             (Cleared /\ Succeeds(i)) =>
                 /\ Pairs(history') = {Pair(lookups[i])}
                 /\ StoredPairs' = {Pair(lookups[i])}
    ]_vars

\* C16 witness: a lookup has returned NXDOMAIN, its error is displayed as
\* the result, and the history and the persisted item are the 20 stored
\* entries it found.
C16_Witness ==
    /\ \E i \in 1..Len(lookups) :
          /\ lookups[i].pc = "done"
          /\ lookups[i].call.pc = "returned"
          /\ "error" \in DOMAIN lookups[i].call.result
          /\ Includes(lookups[i].call.result.error, <<"NXDOMAIN">>)
          /\ "result" \in DOMAIN ui /\ ui.result = lookups[i].call.result
    /\ history = StoredHistory(20)
    /\ storage = JsonStringify(StoredHistory(20))


----------------------------------------------------------------------------
(* Properties of the subdomain test tool *)

\* The base domains handleGenerate accepts
AcceptedBases ==
    {ToLowerCase(Trim(input)) : input \in {i \in Inputs : isValidDomain(ToLowerCase(Trim(i)))}}

\* str is "test-", six characters out of a-z and 0-9, ".", and the base
WellFormedSubdomain(str, base) ==
    /\ Len(str) = 12 + Len(base)
    /\ SubSeq(str, 1, 5) = <<"t", "e", "s", "t", "-">>
    /\ \A i \in 6..11 : str[i] \in Range(Base36)
    /\ str[12] = "."
    /\ SubSeq(str, 13, Len(str)) = base

\* C19: whatever value the random source returns, the subdomain that
\* handleGenerate shows is "test-" followed by exactly six characters from
\* a-z and 0-9, a dot, and the base domain.
C19_SixRandomCharacters ==
    "testSubdomain" \in DOMAIN ui =>
        \E base \in AcceptedBases : WellFormedSubdomain(ui.testSubdomain, base)

\* The results the tool shows
Shown(u) == IF "results" \in DOMAIN u THEN u.results ELSE <<>>

HasEntry(results, i) == \E k \in 1..Len(results) : results[k].subdomain = dnsServers[i].name

EntryOf(results, i) ==
    results[CHOOSE k \in 1..Len(results) : results[k].subdomain = dnsServers[i].name]

\* The status of resolver i: pending while the list has no entry for it
StatusOf(results, i) ==
    IF HasEntry(results, i) THEN EntryOf(results, i).status ELSE "pending"

TerminalStatuses == {"found", "not_found", "error"}

\* The step starts a check
CheckStarts == op'.kind = "subdomain" /\ op'.pc = "fetch" /\ op'.server = 1

\* A resolver's status moves forward only, and a terminal entry stays as it is
StatusMovesForward ==
    \A i \in 1..Len(dnsServers) :
        LET before == StatusOf(Shown(ui), i)
            after == StatusOf(Shown(ui'), i)
        IN  /\ before = "pending" => after \in {"pending", "checking"}
            /\ before = "checking" => after \in {"checking"} \cup TerminalStatuses
            /\ before \in TerminalStatuses =>
                  HasEntry(Shown(ui'), i) /\ EntryOf(Shown(ui'), i) = EntryOf(Shown(ui), i)

\* During a check the resolvers before the current one are terminal, the
\* current one is checking, the later ones are pending, each resolver so far
\* was requested once, and the tool is loading; after the check every
\* resolver is terminal, was requested once, and the tool is not loading.
CheckWellFormed ==
    op.kind = "subdomain" /\ op.pc # "idle" =>
        /\ \A j \in 1..Len(op.sent) : op.sent[j].server = j
        /\ ui.loading = (op.pc # "done")
        /\ Len(Shown(ui)) = Len(op.sent)
        /\ IF op.pc = "done"
           THEN /\ Len(op.sent) = Len(dnsServers)
                /\ \A i \in 1..Len(dnsServers) :
                      StatusOf(Shown(ui), i) \in TerminalStatuses
           ELSE /\ Len(op.sent) = op.server
                /\ \A i \in 1..Len(dnsServers) :
                      StatusOf(Shown(ui), i) \in
                          IF i < op.server THEN TerminalStatuses
                          ELSE IF i = op.server THEN {"checking"} ELSE {"pending"}

\* C18: within a propagation check every resolver goes from pending to
\* checking to one of found, not_found and error, is requested once and
\* never again, and when the check ends every resolver has a terminal status
\* and loading is false.
C18_StatusesMoveForward ==
    /\ []CheckWellFormed
    /\ [][~CheckStarts => StatusMovesForward]_vars

\* A check has ended with one resolver of each terminal status
C18_Witness ==
    /\ op.kind = "subdomain" /\ op.pc = "done"
    /\ ~ui.loading
    /\ StatusOf(ui.results, 1) = "found"
    /\ StatusOf(ui.results, 2) = "not_found"
    /\ StatusOf(ui.results, 3) = "error"


----------------------------------------------------------------------------
(* Properties of the validation of the tools *)

\* The messages of the tools for an input they reject
ValidationMessages ==
    { <<"Please enter a domain">>,
      <<"Please enter a valid domain (e.g., example.com)">>,
      <<"Please enter a base domain">>,
      <<"Please enter an IP address">>,
      <<"Please enter a valid IP address">> }

\* The step shows the message of a rejected input
Rejects ==
    /\ "error" \in DOMAIN ui'
    /\ ui'.error \in ValidationMessages
    /\ "error" \in DOMAIN ui => ui.error # ui'.error

\* The step changes nothing but the message
OnlyErrorChanges ==
    /\ calls' = calls /\ lookups' = lookups
    /\ history' = history /\ storage' = storage /\ now' = now
    /\ op' = op \/ (op.kind = "none" /\ op'.pc = "idle")
    /\ DOMAIN ui' = DOMAIN ui \cup {"error"}
    /\ \A f \in DOMAIN ui \ {"error"} : ui'[f] = ui[f]

\* Every request under way was sent for an input the validation accepts,
\* and every generated subdomain ends in an accepted base
RequestsCarryValidInput ==
    /\ \A c \in 1..Len(calls) : isValidDomain(calls[c].domain)
    /\ \A i \in 1..Len(lookups) : isValidDomain(lookups[i].call.domain)
    /\ op.kind = "ip" /\ op.pc \in {"fetch", "json"} => isValidIP(op.ip)
    /\ "testSubdomain" \in DOMAIN ui =>
          \E base \in AcceptedBases :
              LET n == Len(ui.testSubdomain) IN
              /\ n > Len(base)
              /\ SubSeq(ui.testSubdomain, n - Len(base) + 1, n) = base

\* C17: in every tool an empty or invalid input sets an error message, sends
\* no request, and leaves the displayed result, the loading flag and the
\* history as they were.
C17_RejectionChangesOnlyError ==
    /\ []RequestsCarryValidInput
    /\ [][Rejects => OnlyErrorChanges]_vars

\* The DNS lookup tool shows the result of a lookup, has saved it to the
\* history, and shows the message for an invalid domain typed afterwards
C17_Witness ==
    /\ op.kind = "dns"
    /\ "result" \in DOMAIN ui /\ ~ui.loading
    /\ history # <<>>
    /\ "error" \in DOMAIN ui
    /\ ui.error = <<"Please enter a valid domain (e.g., example.com)">>

\* The IP tool shows the message for an invalid address typed while a
\* lookup is in flight
C17_WitnessInFlight ==
    /\ op.kind = "ip" /\ op.pc = "fetch"
    /\ ui.loading
    /\ "error" \in DOMAIN ui
    /\ ui.error = <<"Please enter a valid IP address">>

----------------------------------------------------------------------------
(* Properties of getIPIntelligence *)

\* getIPIntelligence has returned and the tool has taken what it returned
IpReturned == op.kind = "ip" /\ op.pc = "idle" /\ "answer" \in DOMAIN op

\* The service answered 2xx with a body of status "success"
AnsweredSuccess ==
    /\ op.answer.kind = "data"
    /\ op.answer.data.t = "object"
    /\ "status" \in DOMAIN op.answer.data
    /\ op.answer.data.status = "success"

\* handleLookup was given null
GotNull ==
    "error" \in DOMAIN ui /\ ui.error = <<"Failed to fetch IP intelligence data">>

\* C30 (the claim as stated): when the service answers 2xx with status
\* "success" and exactly the fields the request names, getIPIntelligence
\* returns a record whose ip is the queried address and whose version is
\* 6 if the address contains ':' and 4 otherwise; and it returns null only
\* on a transport failure, a status that is not 2xx or a body whose status
\* is not "success".
C30_SuccessGivesRecord ==
    IpReturned =>
        /\ (AnsweredSuccess /\ DOMAIN op.answer.data = IpFields \cup {"t"}) =>
              /\ "result" \in DOMAIN ui
              /\ ui.result.ip = op.ip
              /\ ui.result.version = IF Includes(op.ip, <<":">>) THEN 6 ELSE 4
        /\ GotNull => ~AnsweredSuccess

====
